---- MODULE Spec2Model ----
(***************************************************************************)
(* Model of the ordinal-aware transaction builder of ord                   *)
(* (src/subcommand/wallet/transaction_builder.rs).                         *)
(*                                                                         *)
(* build_transaction is a pipeline of seven stages over one                *)
(* TransactionBuilder value.  The variables are the fields of that struct, *)
(* pc is the next stage to run and result is what build_transaction        *)
(* returns (or the assertion it halts on).                                 *)
(*                                                                         *)
(* Numbers.  Ordinals are u64 and exceed the range of TLC's integers (the  *)
(* second block starts at 5 000 000 000), so an ordinal n is the pair      *)
(* <<hi, lo>> with n = hi * 10^9 + lo and 0 <= lo < 10^9.  Amounts (sums   *)
(* of range lengths) are plain integers.  The manifests of the model lie   *)
(* in the first epoch (n < 1 050 000 000 000 000).                         *)
(***************************************************************************)
EXTENDS Integers, Sequences, FiniteSets, TLC

VARIABLES
  ranges,                   \* BTreeMap<OutPoint, Vec<(u64, u64)>>
  ordinal,                  \* the ordinal to send
  recipient,                \* the recipient's address
  change_addresses,         \* BTreeSet<Address>
  unused_change_addresses,  \* Vec<Address>, popped from the end
  utxos,                    \* BTreeSet<OutPoint>: the candidate set
  inputs,                   \* Vec<OutPoint>
  outputs,                  \* Vec<(Address, Amount)>
  pc,                       \* the next stage of build_transaction
  result,                   \* what build_transaction returned
  number,                   \* Ordinal(u64): the identifier at hand
  text,                     \* &str: a rendering of number, or the argument of from_str
  notation,                 \* the rendering text was made with
  answer,                   \* what from_str, rarity and is_common returned
  mined,                    \* tests::supply: the subsidies summed so far
  supply_height,            \* tests::supply: the height the loop is at
  INTERRUPTS,               \* static AtomicU64: the interrupts counted so far
  LISTENERS,                \* static Mutex<Vec<axum_server::Handle>>: its Vec
  mutex,                    \* the thread that holds the lock of LISTENERS
  handler,                  \* the ctrl-c handler: its position and its locals
  main,                     \* the main thread: its position in Subcommand::run
  signals,                  \* per interrupt, the handles registered when it arrived
  requests,                 \* (interrupt, handle): graceful_shutdown was called
  exit_code,                \* the status the process ended with
  table,                    \* HEIGHT_TO_BLOCK_HASH as committed: hash per height
  rtx,                      \* the table as the open read transaction sees it
  reported                  \* what Rtx::height returned

\* the state of the notations of ordinal.rs, idle while a transaction is built
codec == <<number, text, notation, answer, mined, supply_height>>

\* the statics of main.rs and the threads that use them
process == <<INTERRUPTS, LISTENERS, mutex, handler, main, signals, requests, exit_code>>

\* the index as Rtx reads it
index == <<table, rtx, reported>>

vars == <<ranges, ordinal, recipient, change_addresses, unused_change_addresses,
          utxos, inputs, outputs, pc, result, codec, process, index>>

----------------------------------------------------------------------------
(* Bounds of the model *)

\* number of outpoints a manifest can hold
MaxOutPoints == 3
\* length of the change list handed to build_transaction
MaxChange == 2

----------------------------------------------------------------------------
(* u64 values as <<hi, lo>> *)

Limb == 10^9

U64Lt(a, b) == a[1] < b[1] \/ (a[1] = b[1] /\ a[2] < b[2])
U64Le(a, b) == a = b \/ U64Lt(a, b)

\* a - b for a >= b, as an amount
U64Diff(a, b) == (a[1] - b[1]) * Limb + (a[2] - b[2])

----------------------------------------------------------------------------
(* Rarity of an ordinal.  In the first epoch the starting ordinal is 0 and *)
(* the subsidy is 50 * COIN_VALUE = 5 * 10^9, i.e. five limbs.             *)

\* epoch_position % subsidy, as a u64
Third(n) == <<n[1] % 5, n[2]>>

\* epoch.starting_height + epoch_position / subsidy
HeightOf(n) == n[1] \div 5

RarityOf(n) ==
  IF n = <<0, 0>> THEN "Mythic"
  ELSE IF Third(n) # <<0, 0>> THEN "Common"
  ELSE IF HeightOf(n) % 210000 = 0 THEN
         (IF (HeightOf(n) \div 210000) % 6 = 0 THEN "Legendary" ELSE "Epic")
  ELSE IF HeightOf(n) % 2016 = 0 THEN "Rare"
  ELSE "Uncommon"

\* Ordinal(n).rarity() > Rarity::Common
AboveCommon(n) == RarityOf(n) # "Common"

----------------------------------------------------------------------------
(* Addresses, scripts, dust limits and sizes (bitcoin crate)               *)

\* mutant: the script forgets the hash it commits to
ScriptPubkeyKindOnly(address) == <<address.kind, 0>>

\* address.script_pubkey(): the script kind and the hash it commits to
ScriptPubkey(address) == <<address.kind, address.id>>

\* serialized length of a script, without its length prefix
ScriptLen(script) ==
  CASE script[1] = "p2wpkh" -> 22
    [] script[1] = "p2pkh" -> 25

IsWitnessProgram(script) == script[1] = "p2wpkh"

\* Script::dust_value(): 3 sat/vbyte times the cost of creating and spending
DustValue(script) ==
  3 * ((IF IsWitnessProgram(script)
          THEN 32 + 4 + 1 + (107 \div 4) + 4
          ELSE 32 + 4 + 1 + 107 + 4)
       + 8 + (1 + ScriptLen(script)))

RECURSIVE SumSeq(_)
SumSeq(s) == IF s = <<>> THEN 0 ELSE Head(s) + SumSeq(Tail(s))

\* mutant: the placeholder inputs carry an empty script_sig
EstimateVsizeEmptyScriptSig(ins, outs) ==
  4 + 1
  + Len(ins) * (36 + 1 + 0 + 4)
  + 1
  + SumSeq([i \in 1..Len(outs) |-> 8 + 1 + ScriptLen(<<outs[i].address.kind, outs[i].address.id>>)])
  + 4

\* vsize of the placeholder transaction: version, input count, inputs with a
\* script_sig of a 71-byte push and a 65-byte push, output count, outputs,
\* lock time; no witness, so vsize = size
EstimateVsize(ins, outs) ==
  4 + 1
  + Len(ins) * (36 + 1 + ((1 + 71) + (1 + 65)) + 4)
  + 1
  + SumSeq([i \in 1..Len(outs) |-> 8 + 1 + ScriptLen(ScriptPubkey(outs[i].address))])
  + 4

\* mutant: a postage cap of three target postages
MaxPostageTripled == 3 * 10000

TARGET_FEE_RATE == 1
TARGET_POSTAGE == 10000
MAX_POSTAGE == 2 * 10000

EstimateFee(ins, outs) == TARGET_FEE_RATE * EstimateVsize(ins, outs)

----------------------------------------------------------------------------
(* Ranges *)

\* mutant: ordinal > start && ordinal < end
ContainsAfterStart(r, n) == U64Lt(r[1], n) /\ U64Lt(n, r[2])

\* ordinal >= start && ordinal < end
Contains(r, n) == U64Le(r[1], n) /\ U64Lt(n, r[2])

\* end - start
Span(r) == U64Diff(r[2], r[1])

\* ranges.iter().map(|(start, end)| end - start).sum()
TotalOf(rs) == SumSeq([i \in 1..Len(rs) |-> Span(rs[i])])

RECURSIVE FlatRanges(_, _)
\* inputs.iter().flat_map(|input| &ranges[input])
FlatRanges(ins, rngs) ==
  IF ins = <<>> THEN <<>> ELSE rngs[Head(ins)] \o FlatRanges(Tail(ins), rngs)

RECURSIVE OffsetOfRangeStart(_, _)
\* mutant: the walk forgets to add ordinal - start
OffsetOfRangeStart(rs, n) ==
  IF rs = <<>> THEN -1
  ELSE IF U64Le(Head(rs)[1], n) /\ U64Lt(n, Head(rs)[2]) THEN 0
  ELSE LET rest == OffsetOfRangeStart(Tail(rs), n)
       IN IF rest = -1 THEN -1 ELSE U64Diff(Head(rs)[2], Head(rs)[1]) + rest

RECURSIVE OffsetIn(_, _)
\* position of n in the concatenation of rs, or -1 when no range holds it
OffsetIn(rs, n) ==
  IF rs = <<>> THEN -1
  ELSE IF Contains(Head(rs), n) THEN U64Diff(n, Head(rs)[1])
  ELSE LET rest == OffsetIn(Tail(rs), n)
       IN IF rest = -1 THEN -1 ELSE Span(Head(rs)) + rest

\* calculate_ordinal_offset: -1 stands for its panic
CalculateOrdinalOffset(ins, rngs, n) == OffsetIn(FlatRanges(ins, rngs), n)

\* the amounts of a list of outputs
Amounts(outs) == [i \in 1..Len(outs) |-> outs[i].amount]

----------------------------------------------------------------------------
(* Arguments of build_transaction *)

\* an ordinal of block 0 that is not the first of its block: Common
C(x) == <<1, x>>

UtxoA == << <<C(10000), C(15000)>> >>
UtxoB == << <<C(15000), C(25000)>>, <<<<0, 0>>, <<0, 100>>>> >>
UtxoB3 == << <<C(15000), C(25000)>>, <<<<5, 0>>, <<5, 1000>>>>, <<<<0, 0>>, <<0, 100>>>> >>
UtxoB4 == << <<C(15000), C(25000)>>, <<<<5, 0>>, <<5, 100>>>>, <<<<0, 0>>, <<0, 100>>>> >>
UtxoR0 == << <<<<0, 0>>, <<0, 5000>>>> >>
UtxoF100 == << <<C(30000), C(30100)>> >>
UtxoF500 == << <<C(31000), C(31500)>> >>
UtxoF5000 == << <<C(5000), C(10000)>> >>
UtxoF20000 == << <<C(40000), C(60000)>> >>
UtxoBig == << <<C(100000), C(1100000)>> >>

\* the range lists an output of the wallet can hold
UtxoShapes ==
  {UtxoA, UtxoB, UtxoB3, UtxoB4, UtxoR0, UtxoF100, UtxoF500, UtxoF5000,
   UtxoF20000, UtxoBig}

\* the ordinals asked for
Ordinals ==
  {C(10000), C(10001), C(10300), C(13333), C(14950), C(15300), C(24000),
   <<0, 0>>, <<0, 50>>, C(40000), C(100000), C(1075000), C(99), C(31001)}

Disjoint(r, q) == U64Le(r[2], q[1]) \/ U64Le(q[2], r[1])

\* start < end for every range, and no two ranges of the manifest overlap
WellFormed(m) ==
  /\ \A o \in DOMAIN m : \A i \in 1..Len(m[o]) : U64Lt(m[o][i][1], m[o][i][2])
  /\ \A o, p \in DOMAIN m : \A i \in 1..Len(m[o]) : \A j \in 1..Len(m[p]) :
       (o # p \/ i # j) => Disjoint(m[o][i], m[p][j])

\* no range crosses the first ordinal of a block: the index issues the ranges
\* of a block whole and only ever splits them
IssuedWhole(m) ==
  \A o \in DOMAIN m : \A i \in 1..Len(m[o]) : \A h \in 0..m[o][i][2][1] :
    ~(Third(<<h, 0>>) = <<0, 0>> /\ U64Lt(m[o][i][1], <<h, 0>>) /\ U64Lt(<<h, 0>>, m[o][i][2]))

Manifests ==
  UNION {{m \in [1..k -> UtxoShapes] : WellFormed(m) /\ IssuedWhole(m)} : k \in 0..MaxOutPoints}

AddressKinds == {"p2wpkh", "p2pkh"}

\* the recipient is address 0, the change addresses are 1, 2, ...
Recipients == {[id |-> 0, kind |-> k] : k \in AddressKinds}

\* change lists of one kind of address
ChangeLists ==
  {[i \in 1..n |-> [id |-> i, kind |-> k]] : n \in 2..MaxChange, k \in AddressKinds}

RangeOf(s) == {s[i] : i \in 1..Len(s)}

NoResult == [kind |-> "none"]

\* the statics before main runs
ProcessIdle ==
  /\ INTERRUPTS = 0
  /\ LISTENERS = <<>>
  /\ mutex = "free"
  /\ handler = [pc |-> "none"]
  /\ main = "none"
  /\ signals = <<>>
  /\ requests = {}
  /\ exit_code = [by |-> "none", status |-> 0]

\* no index is open
IndexIdle ==
  /\ table = <<>>
  /\ rtx = "none"
  /\ reported = NoResult

CodecIdle ==
  /\ number = <<>>
  /\ text = <<>>
  /\ notation = "none"
  /\ answer = NoResult
  /\ mined = <<>>
  /\ supply_height = 0

\* the state Self::new builds from the arguments
Init ==
  /\ ranges \in Manifests
  /\ ordinal \in Ordinals
  /\ recipient \in Recipients
  /\ unused_change_addresses \in ChangeLists
  /\ change_addresses = RangeOf(unused_change_addresses)
  /\ utxos = DOMAIN ranges
  /\ inputs = <<>>
  /\ outputs = <<>>
  /\ pc = "select_ordinal"
  /\ result = NoResult
  /\ CodecIdle
  /\ ProcessIdle
  /\ IndexIdle

----------------------------------------------------------------------------
(* Results *)

Err(e) == [kind |-> "Err", error |-> e]
ErrOrdinal(e, n) == [kind |-> "Err", error |-> e, ordinal |-> n]
Panic(msg) == [kind |-> "Panic", message |-> msg]
Ok(tx) == [kind |-> "Ok", transaction |-> tx]

\* the ? operator and a panic both end the pipeline
Return(r) ==
  /\ pc' = "done"
  /\ result' = r

----------------------------------------------------------------------------
(* Stage 1 *)

HoldsOrdinal(rs, n) == \E i \in 1..Len(rs) : Contains(rs[i], n)

\* ranges.iter().find(..): the first outpoint, in key order, holding n
FindOutpoint(rngs, n) ==
  LET holders == {o \in DOMAIN rngs : HoldsOrdinal(rngs[o], n)}
  IN IF holders = {} THEN 0
     ELSE CHOOSE o \in holders : \A p \in holders : o <= p

select_ordinal ==
  /\ pc = "select_ordinal"
  /\ LET ordinal_outpoint == FindOutpoint(ranges, ordinal)
     IN IF ordinal_outpoint = 0
        THEN /\ Return(ErrOrdinal("NotInWallet", ordinal))
             /\ UNCHANGED <<utxos, inputs, outputs>>
        ELSE /\ utxos' = utxos \ {ordinal_outpoint}
             /\ inputs' = Append(inputs, ordinal_outpoint)
             /\ outputs' = Append(outputs,
                  [address |-> recipient, amount |-> TotalOf(ranges[ordinal_outpoint])])
             /\ pc' = "align_ordinal"
             /\ UNCHANGED result
  /\ UNCHANGED <<codec, process, index>>
  /\ UNCHANGED <<ranges, ordinal, recipient, change_addresses, unused_change_addresses>>

----------------------------------------------------------------------------
(* Cardinal UTXO selection *)

RECURSIVE Descending(_)
\* mutant: the candidates are visited from the largest outpoint down
Descending(S) ==
  IF S = {} THEN <<>>
  ELSE LET most == CHOOSE o \in S : \A p \in S : p <= o
       IN <<most>> \o Descending(S \ {most})

RECURSIVE Ascending(_)
\* the iteration order of a BTreeSet<OutPoint>
Ascending(S) ==
  IF S = {} THEN <<>>
  ELSE LET least == CHOOSE o \in S : \A p \in S : o <= p
       IN <<least>> \o Ascending(S \ {least})

\* mutant: only the first range of the output is looked at
HasRareFirstStart(rs) == rs # <<>> /\ AboveCommon(rs[1][1])

\* some range of the output starts with an ordinal above Common
HasRareStart(rs) == \E i \in 1..Len(rs) : AboveCommon(rs[i][1])

NotFound == [found |-> FALSE]

RECURSIVE ScanAnyUtxo(_, _, _)
\* mutant: the loop does not skip outputs with a rare range start
ScanAnyUtxo(todo, rngs, minimum_amount) ==
  IF todo = <<>> THEN NotFound
  ELSE IF TotalOf(rngs[Head(todo)]) >= minimum_amount
         THEN [found |-> TRUE, utxo |-> Head(todo), amount |-> TotalOf(rngs[Head(todo)])]
  ELSE ScanAnyUtxo(Tail(todo), rngs, minimum_amount)

RECURSIVE ScanCardinal(_, _, _)
\* the for loop of select_cardinal_utxo over the candidates still to visit
ScanCardinal(todo, rngs, minimum_amount) ==
  IF todo = <<>> THEN NotFound
  ELSE IF HasRareStart(rngs[Head(todo)])
         THEN ScanCardinal(Tail(todo), rngs, minimum_amount)
  ELSE IF TotalOf(rngs[Head(todo)]) >= minimum_amount
         THEN [found |-> TRUE, utxo |-> Head(todo), amount |-> TotalOf(rngs[Head(todo)])]
  ELSE ScanCardinal(Tail(todo), rngs, minimum_amount)

\* mutant: the loop visits every output of the manifest, the spent ones too
SelectCardinalUtxoFromManifest(cands, rngs, minimum_amount) ==
  ScanCardinal(Ascending(DOMAIN rngs), rngs, minimum_amount)

\* mutant: the caller is credited the amount it asked for, not the total
SelectCardinalUtxoCreditingRequest(cands, rngs, minimum_amount) ==
  LET sel == ScanCardinal(Ascending(cands), rngs, minimum_amount)
  IN IF sel.found THEN [sel EXCEPT !.amount = minimum_amount] ELSE sel

SelectCardinalUtxo(cands, rngs, minimum_amount) ==
  ScanCardinal(Ascending(cands), rngs, minimum_amount)

----------------------------------------------------------------------------
(* Stages 2 to 6 *)

\* mutant: the change address is taken from the front of the list, and the
\* first output is the one debited
FirstOf(s) == s[1]

\* Vec::last(), and the element Vec::pop() takes
Last(s) == s[Len(s)]
\* mutant: the address taken off the list is the first one
DropFirst(s) == SubSeq(s, 2, Len(s))

\* the list Vec::pop() leaves
Front(s) == SubSeq(s, 1, Len(s) - 1)

\* mutant: the amount is written to the first output
WithAmountOfFirst(outs, i, v) == [outs EXCEPT ![1].amount = v]

\* outputs with the amount of output i set to v
WithAmount(outs, i, v) == [outs EXCEPT ![i].amount = v]

\* mutant: the element is pushed at the end
InsertLast(s, x) == Append(s, x)

\* Vec::insert(0, x)
InsertFirst(s, x) == <<x>> \o s

align_ordinal ==
  /\ pc = "align_ordinal"
  /\ LET ordinal_offset == CalculateOrdinalOffset(inputs, ranges, ordinal)
     IN IF Len(outputs) # 1 THEN
          /\ Return(Panic("invariant: only one output"))
          /\ UNCHANGED <<outputs, unused_change_addresses>>
        ELSE IF outputs[1].address # recipient THEN
          /\ Return(Panic("invariant: first output is recipient"))
          /\ UNCHANGED <<outputs, unused_change_addresses>>
        ELSE IF ordinal_offset = -1 THEN
          /\ Return(Panic("Could not find ordinal in inputs"))
          /\ UNCHANGED <<outputs, unused_change_addresses>>
        ELSE IF ordinal_offset = 0 THEN
          /\ pc' = "pad_alignment_output"
          /\ UNCHANGED <<outputs, unused_change_addresses, result>>
        ELSE IF unused_change_addresses = <<>> THEN
          /\ Return(Panic("not enough change addresses"))
          /\ UNCHANGED <<outputs, unused_change_addresses>>
        ELSE IF Last(outputs).amount < ordinal_offset THEN
          /\ Return(Panic("Amount subtraction error"))
          /\ UNCHANGED <<outputs, unused_change_addresses>>
        ELSE
          /\ outputs' =
               LET inserted == InsertFirst(outputs,
                                 [address |-> Last(unused_change_addresses),
                                  amount |-> ordinal_offset])
               IN WithAmount(inserted, Len(inserted),
                             Last(inserted).amount - ordinal_offset)
          /\ unused_change_addresses' = Front(unused_change_addresses)
          /\ pc' = "pad_alignment_output"
          /\ UNCHANGED result
  /\ UNCHANGED <<codec, process, index>>
  /\ UNCHANGED <<ranges, ordinal, recipient, change_addresses, utxos, inputs>>

\* the dust limit pad_alignment_output holds the alignment output to
PadDustLimit(outs, rcpt) == DustValue(ScriptPubkey(rcpt))

pad_alignment_output ==
  /\ pc = "pad_alignment_output"
  /\ LET dust_limit == PadDustLimit(outputs, recipient)
         needed == outputs[1].address # recipient /\ outputs[1].amount < dust_limit
         sel == SelectCardinalUtxo(utxos, ranges, dust_limit - outputs[1].amount)
     IN IF ~needed THEN
          /\ pc' = "add_postage"
          /\ UNCHANGED <<utxos, inputs, outputs, result>>
        ELSE IF ~sel.found THEN
          /\ Return(Err("NotEnoughCardinalUtxos"))
          /\ UNCHANGED <<utxos, inputs, outputs>>
        ELSE
          /\ utxos' = utxos \ {sel.utxo}
          /\ inputs' = InsertFirst(inputs, sel.utxo)
          /\ outputs' = WithAmount(outputs, 1, outputs[1].amount + sel.amount)
          /\ pc' = "add_postage"
          /\ UNCHANGED result
  /\ UNCHANGED <<codec, process, index>>
  /\ UNCHANGED <<ranges, ordinal, recipient, change_addresses, unused_change_addresses>>

\* the amount add_postage wants the last output to reach
PostageTarget(ins, outs) ==
  DustValue(ScriptPubkey(Last(outs).address)) + EstimateFee(ins, outs)

add_postage ==
  /\ pc = "add_postage"
  /\ LET target == PostageTarget(inputs, outputs)
         needed == Last(outputs).amount < target
         sel == SelectCardinalUtxo(utxos, ranges, target - Last(outputs).amount)
     IN IF ~needed THEN
          /\ pc' = "strip_excess_postage"
          /\ UNCHANGED <<utxos, inputs, outputs, result>>
        ELSE IF ~sel.found THEN
          /\ Return(Err("NotEnoughCardinalUtxos"))
          /\ UNCHANGED <<utxos, inputs, outputs>>
        ELSE
          /\ utxos' = utxos \ {sel.utxo}
          /\ inputs' = Append(inputs, sel.utxo)
          /\ outputs' = WithAmount(outputs, Len(outputs),
                                   Last(outputs).amount + sel.amount)
          /\ pc' = "strip_excess_postage"
          /\ UNCHANGED result
  /\ UNCHANGED <<codec, process, index>>
  /\ UNCHANGED <<ranges, ordinal, recipient, change_addresses, unused_change_addresses>>

\* mutant: a postage of exactly MAX_POSTAGE is split too
ExcessPostageInclusive(postage) == postage >= MAX_POSTAGE

\* postage > Self::MAX_POSTAGE
ExcessPostage(postage) == postage > MAX_POSTAGE

strip_excess_postage ==
  /\ pc = "strip_excess_postage"
  /\ LET ordinal_offset == CalculateOrdinalOffset(inputs, ranges, ordinal)
         total_output_amount == SumSeq(Amounts(outputs))
         postage == total_output_amount - ordinal_offset
     IN IF ordinal_offset = -1 THEN
          /\ Return(Panic("Could not find ordinal in inputs"))
          /\ UNCHANGED <<outputs, unused_change_addresses>>
        ELSE IF \A i \in 1..Len(outputs) : outputs[i].address # recipient THEN
          /\ Return(Panic("couldn't find output that contains the index"))
          /\ UNCHANGED <<outputs, unused_change_addresses>>
        ELSE IF total_output_amount < ordinal_offset THEN
          /\ Return(Panic("Amount subtraction error"))
          /\ UNCHANGED <<outputs, unused_change_addresses>>
        ELSE IF ~ExcessPostage(postage) THEN
          /\ pc' = "deduct_fee"
          /\ UNCHANGED <<outputs, unused_change_addresses, result>>
        ELSE IF unused_change_addresses = <<>> THEN
          /\ Return(Panic("not enough change addresses"))
          /\ UNCHANGED <<outputs, unused_change_addresses>>
        ELSE
          /\ outputs' = Append(WithAmount(outputs, Len(outputs), TARGET_POSTAGE),
                               [address |-> Last(unused_change_addresses),
                                amount |-> postage - TARGET_POSTAGE])
          /\ unused_change_addresses' = Front(unused_change_addresses)
          /\ pc' = "deduct_fee"
          /\ UNCHANGED result
  /\ UNCHANGED <<codec, process, index>>
  /\ UNCHANGED <<ranges, ordinal, recipient, change_addresses, utxos, inputs>>

deduct_fee ==
  /\ pc = "deduct_fee"
  /\ LET ordinal_offset == CalculateOrdinalOffset(inputs, ranges, ordinal)
         fee == EstimateFee(inputs, outputs)
         total_output_amount == SumSeq(Amounts(outputs))
     IN IF ordinal_offset = -1 THEN
          /\ Return(Panic("Could not find ordinal in inputs"))
          /\ UNCHANGED outputs
        ELSE IF outputs = <<>> THEN
          /\ Return(Panic("No output to deduct fee from"))
          /\ UNCHANGED outputs
        ELSE IF total_output_amount < fee THEN
          /\ Return(Panic("Amount subtraction error"))
          /\ UNCHANGED outputs
        ELSE IF ~(total_output_amount - fee > ordinal_offset
                  /\ Last(outputs).amount >= fee) THEN
          /\ Return(Panic("invariant: deducting fee does not consume ordinal"))
          /\ UNCHANGED outputs
        ELSE
          /\ outputs' = WithAmount(outputs, Len(outputs), Last(outputs).amount - fee)
          /\ pc' = "build"
          /\ UNCHANGED result
  /\ UNCHANGED <<codec, process, index>>
  /\ UNCHANGED <<ranges, ordinal, recipient, change_addresses, unused_change_addresses,
                 utxos, inputs>>

----------------------------------------------------------------------------
(* Stage 7: build and its invariant checks *)

\* the Transaction build() emits: previous outputs and (value, script_pubkey)
TxInputs(ins) == ins

TxOutputs(outs) ==
  [i \in 1..Len(outs) |->
     [value |-> outs[i].amount, script_pubkey |-> ScriptPubkey(outs[i].address)]]

Values(txouts) == [i \in 1..Len(txouts) |-> txouts[i].value]

\* sum of the values of the first k outputs
ValueBefore(txouts, k) == SumSeq(SubSeq(Values(txouts), 1, k))

\* how many outputs pay to the script
CountScript(txouts, script) ==
  Cardinality({i \in 1..Len(txouts) : txouts[i].script_pubkey = script})

\* the output the walk "output_end > ordinal_offset" stops at, 0 if none
OutputHolding(txouts, ordinal_offset) ==
  LET reached == {i \in 1..Len(txouts) : ValueBefore(txouts, i) > ordinal_offset}
  IN IF reached = {} THEN 0
     ELSE CHOOSE i \in reached : \A j \in reached : i <= j

\* the first failure of the loop over the outputs at lines 386-408, "" if none
OutputCheck(txouts, rcpt_script, change_scripts, ordinal_offset) ==
  LET bad(i) ==
        IF txouts[i].script_pubkey = rcpt_script
          THEN ~(txouts[i].value < MAX_POSTAGE)
               \/ ValueBefore(txouts, i - 1) # ordinal_offset
          ELSE txouts[i].script_pubkey \notin change_scripts
      failing == {i \in 1..Len(txouts) : bad(i)}
      first == CHOOSE i \in failing : \A j \in failing : i <= j
  IN IF failing = {} THEN ""
     ELSE IF txouts[first].script_pubkey # rcpt_script
       THEN "invariant: all outputs are either change or recipient"
     ELSE IF ~(txouts[first].value < MAX_POSTAGE)
       THEN "invariant: excess postage is stripped"
     ELSE "invariant: ordinal is at first position in recipient output"

\* total sats of the inputs
InputAmount(ins, rngs) == SumSeq([i \in 1..Len(ins) |-> TotalOf(rngs[ins[i]])])

\* mutant: a fee under the target passes
FeeRateAtMostTarget(fee, vsize) == fee <= TARGET_FEE_RATE * vsize

\* fee_rate == target_fee_rate, with fee_rate = fee / vsize
FeeRateIsTarget(fee, vsize) == fee = TARGET_FEE_RATE * vsize

\* mutant: every output is held to the dust value of a witness program
AboveWitnessDust(txouts) ==
  \A i \in 1..Len(txouts) : txouts[i].value >= DustValue(<<"p2wpkh", 0>>)

\* every output holds at least the dust value of its script
AboveDust(txouts) ==
  \A i \in 1..Len(txouts) : txouts[i].value >= DustValue(txouts[i].script_pubkey)

RECURSIVE RareOrdinalsFrom(_, _)
\* (ordinal, offset) of every range start above Common, offsets from `offset`
RareOrdinalsFrom(rs, offset) ==
  IF rs = <<>> THEN <<>>
  ELSE (IF AboveCommon(Head(rs)[1]) THEN <<<<Head(rs)[1], offset>>>> ELSE <<>>)
       \o RareOrdinalsFrom(Tail(rs), offset + Span(Head(rs)))

RareOrdinals(ins, rngs) == RareOrdinalsFrom(FlatRanges(ins, rngs), 0)

\* (offset, offset + value) of the first output paying the recipient
RecipientRange(txouts, rcpt_script) ==
  LET at == {i \in 1..Len(txouts) : txouts[i].script_pubkey = rcpt_script}
      first == CHOOSE i \in at : \A j \in at : i <= j
  IN IF at = {} THEN <<0, 0>>
     ELSE <<ValueBefore(txouts, first - 1), ValueBefore(txouts, first)>>

RECURSIVE RareLossToRecipientOnly(_, _, _, _)
\* mutant: the loop does not look at the fee tail
RareLossToRecipientOnly(rare, target, recipient_range, fee_start) ==
  IF rare = <<>> THEN NoResult
  ELSE IF Head(rare)[1] # target
          /\ Head(rare)[2] >= recipient_range[1] /\ Head(rare)[2] < recipient_range[2]
         THEN ErrOrdinal("RareOrdinalLostToRecipient", Head(rare)[1])
  ELSE RareLossToRecipientOnly(Tail(rare), target, recipient_range, fee_start)

RECURSIVE RareLoss(_, _, _, _)
\* the loop at lines 461-469: the error it returns, or NoResult
RareLoss(rare, target, recipient_range, fee_start) ==
  IF rare = <<>> THEN NoResult
  ELSE LET rare_ordinal == Head(rare)[1]
           offset == Head(rare)[2]
       IN IF rare_ordinal # target
             /\ offset >= recipient_range[1] /\ offset < recipient_range[2]
            THEN ErrOrdinal("RareOrdinalLostToRecipient", rare_ordinal)
          ELSE IF rare_ordinal # target /\ offset >= fee_start
            THEN ErrOrdinal("RareOrdinalLostToFee", rare_ordinal)
          ELSE RareLoss(Tail(rare), target, recipient_range, fee_start)

\* what build() returns on the builder (ins, outs, rngs, n, rcpt, changes)
BuildResult(ins, outs, rngs, n, rcpt, changes) ==
  LET txin == TxInputs(ins)
      txout == TxOutputs(outs)
      rcpt_script == ScriptPubkey(rcpt)
      change_scripts == {ScriptPubkey(a) : a \in changes}
      outpoint == FindOutpoint(rngs, n)
      ordinal_offset == OffsetIn(FlatRanges(txin, rngs), n)
      holding == OutputHolding(txout, ordinal_offset)
      output_check == OutputCheck(txout, rcpt_script, change_scripts, ordinal_offset)
      input_amount == InputAmount(txin, rngs)
      fee == input_amount - SumSeq(Values(txout))
      loss == RareLoss(RareOrdinals(txin, rngs), n,
                       RecipientRange(txout, rcpt_script), input_amount - fee)
  IN IF outpoint = 0
       THEN Panic("invariant: ordinal is contained in utxo ranges")
     ELSE IF Cardinality({i \in 1..Len(txin) : txin[i] = outpoint}) # 1
       THEN Panic("invariant: inputs spend ordinal")
     ELSE IF ordinal_offset = -1
       THEN Panic("invariant: ordinal is found in inputs")
     ELSE IF holding # 0 /\ txout[holding].script_pubkey # rcpt_script
       THEN Panic("invariant: ordinal is sent to recipient")
     ELSE IF holding = 0
       THEN Panic("invariant: ordinal is found in outputs")
     ELSE IF CountScript(txout, rcpt_script) # 1
       THEN Panic("invariant: recipient address appears exactly once in outputs")
     ELSE IF \E c \in change_scripts : CountScript(txout, c) > 1
       THEN Panic("invariant: change addresses appear at most once in outputs")
     ELSE IF output_check # ""
       THEN Panic(output_check)
     ELSE IF fee < 0
       THEN Panic("Amount subtraction error")
     ELSE IF ~FeeRateIsTarget(fee, EstimateVsize(ins, outs))
       THEN Panic("invariant: fee rate is equal to target fee rate")
     ELSE IF ~AboveDust(txout)
       THEN Panic("invariant: all outputs are above dust limit")
     ELSE IF loss # NoResult
       THEN loss
     ELSE Ok([input |-> txin, output |-> txout])

build ==
  /\ pc = "build"
  /\ Return(BuildResult(inputs, outputs, ranges, ordinal, recipient, change_addresses))
  /\ UNCHANGED <<codec, process, index>>
  /\ UNCHANGED <<ranges, ordinal, recipient, change_addresses, unused_change_addresses,
                 utxos, inputs, outputs>>

Next ==
  \/ select_ordinal
  \/ align_ordinal
  \/ pad_alignment_output
  \/ add_postage
  \/ strip_excess_postage
  \/ deduct_fee
  \/ build

Spec == Init /\ [][Next]_vars

----------------------------------------------------------------------------
(* Properties of build_transaction *)

Returned == pc = "done"
ReturnedOk == pc = "done" /\ result.kind = "Ok"

\* the recipient's script and the scripts of the change addresses provided
TheRecipientScript == <<recipient.kind, recipient.id>>
TheChangeScripts == {<<a.kind, a.id>> : a \in change_addresses}

\* the outputs of tx paying to the recipient
RecipientOutputs(tx) ==
  {i \in 1..Len(tx.output) : tx.output[i].script_pubkey = TheRecipientScript}

\* sum of the values of the first k outputs of tx
PaidBefore(tx, k) == SumSeq([i \in 1..k |-> tx.output[i].value])

\* the ranges of the inputs of tx, in input order, and where range j starts
SpentRanges(tx) == FlatRanges(tx.input, ranges)
RangeLength(r) == (r[2][1] - r[1][1]) * Limb + (r[2][2] - r[1][2])
PositionOfRange(rs, j) == SumSeq([i \in 1..(j - 1) |-> RangeLength(rs[i])])
InRange(r, n) ==
  /\ (r[1][1] < n[1] \/ (r[1][1] = n[1] /\ r[1][2] <= n[2]))
  /\ (n[1] < r[2][1] \/ (n[1] = r[2][1] /\ n[2] < r[2][2]))

\* the position of the ordinal in the concatenated ranges of the inputs of tx
PositionOfOrdinal(tx) ==
  LET rs == SpentRanges(tx)
      j == CHOOSE i \in 1..Len(rs) : InRange(rs[i], ordinal)
  IN PositionOfRange(rs, j) + RangeLength(<<rs[j][1], ordinal>>)

\* sum of the total sats of the inputs of tx
SpentAmount(tx) ==
  LET rs == SpentRanges(tx) IN SumSeq([i \in 1..Len(rs) |-> RangeLength(rs[i])])

\* the fee tx pays
FeeOf(tx) == SpentAmount(tx) - PaidBefore(tx, Len(tx.output))

\* C1: build_transaction returns Ok or one of the four errors and never halts
\* on an assertion, an expect or a panic (FAILS: see C1_PostageTooSmall and
\* C1_AlignmentUnderOwnDust for the two ways build() halts)
C1_OkOrOneOfFourErrors ==
  Returned =>
    \/ result.kind = "Ok"
    \/ /\ result.kind = "Err"
       /\ result.error \in {"NotInWallet", "NotEnoughCardinalUtxos",
                            "RareOrdinalLostToRecipient", "RareOrdinalLostToFee"}

\* stage 4 accepted a UTXO that covers the shortfall but not the 179 vbytes
\* the new input adds to the fee: build() halts on the dust assertion
C1_PostageTooSmall ==
  /\ Returned /\ result.kind = "Panic"
  /\ Len(inputs) = 2 /\ Len(outputs) = 2
  /\ recipient.kind = "p2wpkh" /\ \A a \in change_addresses : a.kind = "p2wpkh"

\* stage 3 compared the alignment output with the recipient's dust limit
C1_AlignmentUnderOwnDust ==
  /\ Returned /\ result.kind = "Panic"
  /\ Len(inputs) = 1 /\ Len(outputs) = 2
  /\ outputs[1].amount >= DustValue(TheRecipientScript)
  /\ outputs[1].amount < DustValue(<<outputs[1].address.kind, outputs[1].address.id>>)

\* C2: in a returned transaction the outputs before the recipient output sum
\* to the position of the ordinal in the concatenated ranges of the inputs,
\* and the recipient output holds at least 1 sat
C2_RecipientStartsAtOrdinal ==
  ReturnedOk =>
    LET tx == result.transaction
    IN /\ RecipientOutputs(tx) # {}
       /\ \A k \in RecipientOutputs(tx) :
            /\ PaidBefore(tx, k - 1) = PositionOfOrdinal(tx)
            /\ tx.output[k].value >= 1

\* a returned transaction whose ordinal sits behind a padding input and inside
\* its own range, with an alignment output in front of the recipient
C2_Witness ==
  /\ ReturnedOk
  /\ Len(result.transaction.input) >= 2
  /\ ~HoldsOrdinal(ranges[result.transaction.input[1]], ordinal)
  /\ result.transaction.output[1].script_pubkey # TheRecipientScript
  /\ PositionOfOrdinal(result.transaction) > TotalOf(ranges[result.transaction.input[1]])

\* size in bytes of a transaction without witness: 4 version, 1 input count,
\* 179 per input with the placeholder script_sig, 1 output count, 8 + 1 +
\* script length per output, 4 lock time
SizeOfShape(tx) ==
  10 + 179 * Len(tx.input)
  + SumSeq([i \in 1..Len(tx.output) |->
              9 + (IF tx.output[i].script_pubkey[1] = "p2wpkh" THEN 22 ELSE 25)])

\* C3: the fee of a returned transaction is exactly 1 sat per vbyte of its
\* final shape
C3_FeeIsExactlyTargetRate ==
  ReturnedOk => FeeOf(result.transaction) = 1 * SizeOfShape(result.transaction)

\* a returned transaction with two inputs and three outputs pays 461 or more
C3_Witness ==
  /\ ReturnedOk
  /\ Len(result.transaction.input) = 2 /\ Len(result.transaction.output) = 3
  /\ FeeOf(result.transaction) >= 461

\* C4: every output of a returned transaction holds at least the dust limit
\* of its own script
C4_OutputsAboveOwnDust ==
  ReturnedOk =>
    \A i \in 1..Len(result.transaction.output) :
      result.transaction.output[i].value
        >= DustValue(result.transaction.output[i].script_pubkey)

\* a returned transaction with a padded alignment output paying a p2pkh
\* change address next to a p2wpkh recipient
C4_Witness ==
  /\ ReturnedOk
  /\ Len(result.transaction.input) >= 2
  /\ result.transaction.output[1].script_pubkey[1] = "p2pkh"
  /\ TheRecipientScript[1] = "p2wpkh"
  /\ Len(result.transaction.output) >= 2

\* C5: the recipient output of a returned transaction is below MAX_POSTAGE
C5_RecipientBelowMaxPostage ==
  ReturnedOk =>
    \A k \in RecipientOutputs(result.transaction) :
      result.transaction.output[k].value < 20000

\* a postage input lifted the recipient output over MAX_POSTAGE and stage 5
\* cut it back to TARGET_POSTAGE
C5_Witness ==
  /\ ReturnedOk
  /\ Len(result.transaction.input) = 2
  /\ HoldsOrdinal(ranges[result.transaction.input[1]], ordinal)
  /\ TotalOf(ranges[result.transaction.input[2]]) >= 20000
  /\ \E k \in RecipientOutputs(result.transaction) :
       result.transaction.output[k].value = 10000

\* a recipient output of exactly MAX_POSTAGE before the fee is not split
C5_WitnessAtCap ==
  /\ ReturnedOk
  /\ Len(result.transaction.output) = 1
  /\ SpentAmount(result.transaction) = 20000

\* C6: in a returned transaction the recipient's script is in exactly one
\* output, each change address in at most one, and no other script is paid
C6_OutputsAreRecipientAndChange ==
  ReturnedOk =>
    LET tx == result.transaction
        paying(script) == {i \in 1..Len(tx.output) : tx.output[i].script_pubkey = script}
    IN /\ Cardinality(paying(TheRecipientScript)) = 1
       /\ \A c \in TheChangeScripts : Cardinality(paying(c)) <= 1
       /\ \A i \in 1..Len(tx.output) :
            tx.output[i].script_pubkey \in {TheRecipientScript} \cup TheChangeScripts

\* a returned transaction that pays both change addresses, of another kind
\* than the recipient's
C6_Witness ==
  /\ ReturnedOk
  /\ Len(result.transaction.output) = 3
  /\ result.transaction.output[1].script_pubkey[1] # TheRecipientScript[1]
  /\ result.transaction.output[3].script_pubkey # result.transaction.output[1].script_pubkey

\* the starts of spent ranges that are above Common and are not the ordinal
OtherRareStarts(tx) ==
  {j \in 1..Len(SpentRanges(tx)) :
     AboveCommon(SpentRanges(tx)[j][1]) /\ SpentRanges(tx)[j][1] # ordinal}

\* C7: in a returned transaction no rare range start other than the ordinal
\* lies inside the recipient output or in the fee tail
C7_NoRareOrdinalLost ==
  ReturnedOk =>
    LET tx == result.transaction
    IN \A j \in OtherRareStarts(tx) :
         LET position == PositionOfRange(SpentRanges(tx), j)
         IN /\ \A k \in RecipientOutputs(tx) :
                 ~(PaidBefore(tx, k - 1) <= position /\ position < PaidBefore(tx, k))
            /\ position < SpentAmount(tx) - FeeOf(tx)

\* a returned transaction that spends a rare range start other than the
\* ordinal, which went to a change output
C7_Witness ==
  /\ ReturnedOk
  /\ OtherRareStarts(result.transaction) # {}

\* the builder state build() is about to check, as a transaction
PendingTx == [input |-> inputs,
              output |-> [i \in 1..Len(outputs) |->
                            [value |-> outputs[i].amount,
                             script_pubkey |-> <<outputs[i].address.kind,
                                                 outputs[i].address.id>>]]]

InRecipientSpan(tx, position) ==
  \E k \in RecipientOutputs(tx) :
    PaidBefore(tx, k - 1) <= position /\ position < PaidBefore(tx, k)

InFeeTail(tx, position) == position >= PaidBefore(tx, Len(tx.output))

\* the rare range starts, other than the ordinal, that tx would hand to the
\* recipient or to the fee
LostRareStarts(tx) ==
  {j \in OtherRareStarts(tx) :
     \/ InRecipientSpan(tx, PositionOfRange(SpentRanges(tx), j))
     \/ InFeeTail(tx, PositionOfRange(SpentRanges(tx), j))}

\* the error the claim names: that of the first lost rare start in input
\* order then range order
ExpectedRareLoss(tx) ==
  LET first == CHOOSE j \in LostRareStarts(tx) : \A i \in LostRareStarts(tx) : j <= i
  IN IF InRecipientSpan(tx, PositionOfRange(SpentRanges(tx), first))
       THEN ErrOrdinal("RareOrdinalLostToRecipient", SpentRanges(tx)[first][1])
       ELSE ErrOrdinal("RareOrdinalLostToFee", SpentRanges(tx)[first][1])

\* C8: when the transaction about to be built would hand a rare range start
\* other than the ordinal to the recipient or to the fee, build_transaction
\* returns the error naming the first such start (FAILS: build() halts on the
\* dust assertion before it looks for rare ordinals, see C1)
C8_RareLossIsReturnedAsError ==
  [][(pc = "build" /\ LostRareStarts(PendingTx) # {})
       => result' = ExpectedRareLoss(PendingTx)]_vars

\* the same, for the runs in which build() does not halt on an assertion
C8_RareLossIsReturnedUnlessHalted ==
  [][(pc = "build" /\ LostRareStarts(PendingTx) # {} /\ result'.kind # "Panic")
       => result' = ExpectedRareLoss(PendingTx)]_vars

\* two rare starts are lost, the first to the recipient and the second to
\* the fee, and the first one is the one reported
C8_WitnessTwoLost ==
  /\ Returned /\ result.kind = "Err" /\ result.error = "RareOrdinalLostToRecipient"
  /\ Cardinality(LostRareStarts(PendingTx)) = 2
  /\ \E j \in LostRareStarts(PendingTx) :
       InFeeTail(PendingTx, PositionOfRange(SpentRanges(PendingTx), j))

\* a rare start is lost and build() halts instead of returning the error
C8_WitnessHalted ==
  /\ Returned /\ result.kind = "Panic"
  /\ Len(inputs) >= 1 /\ Len(outputs) >= 1
  /\ LostRareStarts(PendingTx) # {}

\* some range of some output of the manifest holds the ordinal
InWallet ==
  \E o \in DOMAIN ranges : \E i \in 1..Len(ranges[o]) : InRange(ranges[o][i], ordinal)

\* the outputs of the manifest that hold the ordinal
Hosts ==
  {o \in DOMAIN ranges : \E i \in 1..Len(ranges[o]) : InRange(ranges[o][i], ordinal)}

IsNotInWallet(r) == r.kind = "Err" /\ r.error = "NotInWallet"

\* C9: NotInWallet(ordinal) is returned exactly when no range of the manifest
\* holds the ordinal; otherwise stage 1 moves the hosting output from the
\* candidate set to the inputs
C9_NotInWalletIffNoRangeHolds ==
  /\ IsNotInWallet(result) => (~InWallet /\ result.ordinal = ordinal)
  /\ (pc # "select_ordinal" /\ ~InWallet) => IsNotInWallet(result)
  /\ (pc # "select_ordinal" /\ InWallet) =>
       \A o \in Hosts :
         /\ o \notin utxos
         /\ \E i \in 1..Len(inputs) : inputs[i] = o

\* the ordinal is the first of its range and its host, the second output of
\* the manifest, became an input
C9_WitnessHosted ==
  /\ pc = "align_ordinal"
  /\ inputs = <<2>> /\ utxos = {1, 3}
  /\ \E i \in 1..Len(ranges[2]) : ranges[2][i][1] = ordinal

\* NotInWallet for a manifest that holds ranges, none with the ordinal
C9_WitnessNotInWallet ==
  /\ Returned /\ IsNotInWallet(result)
  /\ Cardinality(DOMAIN ranges) = 3

IsNotEnoughCardinalUtxos(r) == r.kind = "Err" /\ r.error = "NotEnoughCardinalUtxos"

\* a remaining candidate is cardinal and holds at least the amount
CardinalCandidate(amount) ==
  \E u \in utxos :
    /\ \A i \in 1..Len(ranges[u]) : ~AboveCommon(ranges[u][i][1])
    /\ SumSeq([i \in 1..Len(ranges[u]) |-> RangeLength(ranges[u][i])]) >= amount

\* stage 3 pads: there is an alignment output and it is below dust_limit
PaddingShortfall ==
  IF outputs[1].address # recipient
     /\ outputs[1].amount < DustValue(TheRecipientScript)
  THEN DustValue(TheRecipientScript) - outputs[1].amount
  ELSE 0

\* stage 4 adds postage: the recipient output is below dust_limit + estimated_fee
PostageShortfall ==
  LET wanted == DustValue(TheRecipientScript) + EstimateFee(inputs, outputs)
  IN IF outputs[Len(outputs)].amount < wanted
     THEN wanted - outputs[Len(outputs)].amount
     ELSE 0

\* C10: NotEnoughCardinalUtxos is returned exactly when stage 3 has to pad, or
\* stage 4 has to add postage, and no remaining candidate is cardinal with a
\* total of at least the shortfall
C10_NotEnoughCardinalUtxosIffNoCandidate ==
  [][/\ pc = "pad_alignment_output" =>
          (IsNotEnoughCardinalUtxos(result')
             <=> (PaddingShortfall > 0 /\ ~CardinalCandidate(PaddingShortfall)))
     /\ pc = "add_postage" =>
          (IsNotEnoughCardinalUtxos(result')
             <=> (PostageShortfall > 0 /\ ~CardinalCandidate(PostageShortfall)))
     /\ pc \notin {"pad_alignment_output", "add_postage"} =>
          ~IsNotEnoughCardinalUtxos(result')]_vars

\* postage is needed and refused although two candidates remain: one too
\* small, one large enough with a rare range start
C10_WitnessPostage ==
  /\ Returned /\ IsNotEnoughCardinalUtxos(result)
  /\ Len(outputs) = 2 /\ PostageShortfall > 0
  /\ \E u \in utxos : \E i \in 1..Len(ranges[u]) : AboveCommon(ranges[u][i][1])
  /\ \E u \in utxos : TotalOf(ranges[u]) < PostageShortfall
  /\ \E u \in utxos : TotalOf(ranges[u]) >= PostageShortfall

\* padding is needed and refused
C10_WitnessPadding ==
  /\ Returned /\ IsNotEnoughCardinalUtxos(result)
  /\ Len(inputs) = 1 /\ PaddingShortfall > 0 /\ utxos # {}

\* the addresses of a list of outputs, in order
AddressesOf(outs) == [i \in 1..Len(outs) |-> outs[i].address]

\* the scripts of the outputs of tx, in order
ScriptsOf(tx) == [i \in 1..Len(tx.output) |-> tx.output[i].script_pubkey]

\* the place of the hosting output among the inputs
HostPlace(ins) == CHOOSE i \in 1..Len(ins) : ins[i] \in Hosts

\* inputs are [padding?, host, postage?] and outputs [alignment?, recipient,
\* excess?], with a padding input only behind an alignment output
OrderedShape(ins, scripts) ==
  /\ \E i \in 1..Len(ins) : ins[i] \in Hosts
  /\ HostPlace(ins) \in {1, 2} /\ Len(ins) <= HostPlace(ins) + 1
  /\ \E k \in {1, 2} :
       /\ k <= Len(scripts) /\ Len(scripts) <= k + 1
       /\ scripts[k] = TheRecipientScript
       /\ \A i \in 1..Len(scripts) : i # k => scripts[i] \in TheChangeScripts
       /\ HostPlace(ins) = 2 => k = 2

\* C11: stage 1 pushes the host, stage 3 only prepends an input, stage 4 only
\* appends one, stage 2 only puts the alignment output first, stage 5 only
\* appends the excess output, stages 6 and 7 keep inputs and outputs in place;
\* a returned transaction has inputs [padding?, host, postage?] and outputs
\* [alignment?, recipient, excess?]
C11_InputsAndOutputsKeepTheirOrder ==
  [][/\ pc = "select_ordinal" /\ pc' # "done" =>
          /\ inputs'[1] \in Hosts /\ Len(inputs') = 1
          /\ AddressesOf(outputs') = <<recipient>>
     /\ pc = "align_ordinal" /\ pc' # "done" =>
          /\ inputs' = inputs
          /\ \/ outputs' = outputs
             \/ /\ Len(outputs') = 2
                /\ outputs'[1].address \in change_addresses
                /\ outputs'[2].address = recipient
     /\ pc = "pad_alignment_output" /\ pc' # "done" =>
          /\ inputs' = inputs \/ \E u \in utxos : inputs' = <<u>> \o inputs
          /\ AddressesOf(outputs') = AddressesOf(outputs)
     /\ pc = "add_postage" /\ pc' # "done" =>
          /\ inputs' = inputs \/ \E u \in utxos : inputs' = inputs \o <<u>>
          /\ AddressesOf(outputs') = AddressesOf(outputs)
     /\ pc = "strip_excess_postage" /\ pc' # "done" =>
          /\ inputs' = inputs
          /\ \/ outputs' = outputs
             \/ \E a \in change_addresses :
                  AddressesOf(outputs') = AddressesOf(outputs) \o <<a>>
     /\ pc = "deduct_fee" =>
          /\ inputs' = inputs
          /\ AddressesOf(outputs') = AddressesOf(outputs)
     /\ pc = "build" =>
          /\ inputs' = inputs /\ outputs' = outputs
          /\ result'.kind = "Ok" =>
               /\ result'.transaction.input = inputs
               /\ ScriptsOf(result'.transaction)
                    = [i \in 1..Len(outputs) |->
                         <<outputs[i].address.kind, outputs[i].address.id>>]
               /\ OrderedShape(result'.transaction.input,
                               ScriptsOf(result'.transaction))]_vars

\* a returned transaction with three inputs and two outputs: the padding
\* input in front of the host, the postage input behind it
C11_Witness ==
  /\ ReturnedOk
  /\ Len(result.transaction.input) = 3 /\ Len(result.transaction.output) = 2
  /\ result.transaction.input[2] \in Hosts

\* a returned transaction with all three outputs
C11_WitnessThreeOutputs ==
  /\ ReturnedOk
  /\ Len(result.transaction.output) = 3
  /\ result.transaction.output[2].script_pubkey = TheRecipientScript

\* the remaining candidates that are cardinal and hold at least the amount
Qualifying(amount) ==
  {u \in utxos :
     /\ \A i \in 1..Len(ranges[u]) : ~AboveCommon(ranges[u][i][1])
     /\ SumSeq([i \in 1..Len(ranges[u]) |-> RangeLength(ranges[u][i])]) >= amount}

\* the minimum stage 3 or stage 4 hands to select_cardinal_utxo, 0 when the
\* stage does not call it
SelectionMinimum ==
  IF pc = "pad_alignment_output" THEN PaddingShortfall
  ELSE IF pc = "add_postage" THEN PostageShortfall
  ELSE 0

\* the output whose amount the selected total is added to
PaidOutput == IF pc = "pad_alignment_output" THEN 1 ELSE Len(outputs)

\* C13: select_cardinal_utxo(minimum) takes the smallest outpoint among the
\* remaining candidates that are cardinal with a total >= minimum, returns
\* its total and removes only it; when there is none it returns
\* NotEnoughCardinalUtxos and leaves the candidates as they are
C13_SmallestQualifyingCandidateIsTaken ==
  [][SelectionMinimum > 0 =>
       IF Qualifying(SelectionMinimum) = {}
       THEN /\ IsNotEnoughCardinalUtxos(result')
            /\ utxos' = utxos /\ inputs' = inputs /\ outputs' = outputs
       ELSE LET taken == CHOOSE u \in Qualifying(SelectionMinimum) :
                           \A v \in Qualifying(SelectionMinimum) : u <= v
                total == SumSeq([i \in 1..Len(ranges[taken]) |->
                                   RangeLength(ranges[taken][i])])
            IN /\ utxos' = utxos \ {taken}
               /\ Len(inputs') = Len(inputs) + 1
               /\ \E i \in 1..Len(inputs') : inputs'[i] = taken
               /\ outputs'[PaidOutput].amount
                    = outputs[PaidOutput].amount + total
               /\ result' = result]_vars

\* a candidate with a rare range start was passed over and is still a
\* candidate, and a larger outpoint was taken
C13_WitnessRareSkipped ==
  /\ pc = "strip_excess_postage"
  /\ Len(inputs) = 2
  /\ \E u \in utxos :
       /\ u < inputs[2] /\ inputs[2] \notin Hosts
       /\ \E i \in 1..Len(ranges[u]) : AboveCommon(ranges[u][i][1])
       /\ TotalOf(ranges[u]) >= TotalOf(ranges[inputs[2]])

\* a candidate that was too small was passed over and is still a candidate
C13_WitnessSmallSkipped ==
  /\ pc = "strip_excess_postage"
  /\ Len(inputs) = 2
  /\ \E u \in utxos :
       /\ u < inputs[2] /\ inputs[2] \notin Hosts
       /\ \A i \in 1..Len(ranges[u]) : ~AboveCommon(ranges[u][i][1])
       /\ TotalOf(ranges[u]) < TotalOf(ranges[inputs[2]])

\* two candidates qualify and the smaller outpoint is the one taken
C13_WitnessTwoQualify ==
  /\ pc = "strip_excess_postage"
  /\ Len(inputs) = 2 /\ inputs[2] \notin Hosts
  /\ \E u \in utxos :
       /\ u > inputs[2]
       /\ \A i \in 1..Len(ranges[u]) : ~AboveCommon(ranges[u][i][1])
       /\ TotalOf(ranges[u]) >= TotalOf(ranges[inputs[2]])

\* the output paying the recipient in the list of outputs
RecipientPlace(outs) == CHOOSE k \in 1..Len(outs) : outs[k].address = recipient

\* C14: stage 5 splits the recipient output exactly when its amount after
\* stages 1-4 is above 20 000; a split leaves 10 000 to the recipient and
\* appends one change output with the remainder, from which stage 6 takes the
\* fee; otherwise stage 5 adds no output and consumes no change address
C14_SplitIffAboveMaxPostage ==
  [][/\ pc = "strip_excess_postage" =>
          LET last == Len(outputs)
              amount == outputs[last].amount
          IN IF amount > 20000
             THEN /\ outputs[last].address = recipient
                  /\ Len(outputs') = last + 1
                  /\ outputs'[last] = [address |-> recipient, amount |-> 10000]
                  /\ outputs'[last + 1] =
                       [address |-> unused_change_addresses[Len(unused_change_addresses)],
                        amount |-> amount - 10000]
                  /\ \A i \in 1..(last - 1) : outputs'[i] = outputs[i]
                  /\ Len(unused_change_addresses') = Len(unused_change_addresses) - 1
                  /\ pc' = "deduct_fee"
             ELSE /\ outputs' = outputs
                  /\ unused_change_addresses' = unused_change_addresses
     /\ (pc = "deduct_fee" /\ RecipientPlace(outputs) < Len(outputs)) =>
          /\ pc' = "build"
          /\ outputs'[RecipientPlace(outputs)].amount = 10000
          /\ outputs'[Len(outputs)].amount
               = outputs[Len(outputs)].amount - SizeOfShape(PendingTx)
     /\ (pc = "build" /\ RecipientPlace(outputs) < Len(outputs)) =>
          /\ result'.kind = "Ok"
          /\ result'.transaction.output[RecipientPlace(outputs)].value = 10000
          /\ result'.transaction.output[Len(outputs)].value
               = SpentAmount(PendingTx) - PositionOfOrdinal(PendingTx) - 10000
                   - SizeOfShape(PendingTx)]_vars

\* a recipient output of 25 000 behind an alignment output was split
C14_Witness ==
  /\ ReturnedOk
  /\ Len(result.transaction.output) = 3
  /\ result.transaction.output[2].value = 10000
  /\ SpentAmount(result.transaction) - PositionOfOrdinal(result.transaction) > 20000

\* a recipient output of exactly 20 000 was left whole
C14_WitnessNotSplit ==
  /\ ReturnedOk
  /\ Len(result.transaction.output) = 1
  /\ SpentAmount(result.transaction) - PositionOfOrdinal(result.transaction) = 20000

----------------------------------------------------------------------------
(***************************************************************************)
(* The notations of an ordinal (src/ordinal.rs): name, decimal, degree,    *)
(* percentile and plain integer, and from_str which reads them back.       *)
(***************************************************************************)

----------------------------------------------------------------------------
(* Natural numbers beyond TLC's integers.  The codecs of ordinal.rs work   *)
(* on u64 and f64 values up to and past SUPPLY = 2 099 999 997 690 000, so *)
(* there a number is the sequence of its base-1000 digits, least           *)
(* significant first, without leading zeros; zero is <<>>.                 *)

Base == 10^3

RECURSIVE BigOf(_)
\* the number k, for an integer k >= 0
BigOf(k) == IF k = 0 THEN <<>> ELSE <<k % Base>> \o BigOf(k \div Base)

RECURSIVE BigToInt(_)
\* the integer a, for a < 2^31
BigToInt(a) == IF a = <<>> THEN 0 ELSE Head(a) + Base * BigToInt(Tail(a))

RECURSIVE BigTrim(_)
BigTrim(a) ==
  IF a = <<>> THEN <<>>
  ELSE IF a[Len(a)] = 0 THEN BigTrim(SubSeq(a, 1, Len(a) - 1))
  ELSE a

DigitAt(a, i) == IF i <= Len(a) THEN a[i] ELSE 0

RECURSIVE BigAddFrom(_, _, _, _)
BigAddFrom(a, b, i, carry) ==
  IF i > Len(a) /\ i > Len(b)
    THEN (IF carry = 0 THEN <<>> ELSE <<carry>>)
  ELSE <<(DigitAt(a, i) + DigitAt(b, i) + carry) % Base>>
       \o BigAddFrom(a, b, i + 1, (DigitAt(a, i) + DigitAt(b, i) + carry) \div Base)

\* a + b
BigAdd(a, b) == BigAddFrom(a, b, 1, 0)

RECURSIVE BigSubFrom(_, _, _, _)
BigSubFrom(a, b, i, borrow) ==
  IF i > Len(a) THEN <<>>
  ELSE <<(DigitAt(a, i) - DigitAt(b, i) - borrow + Base) % Base>>
       \o BigSubFrom(a, b, i + 1,
                     IF DigitAt(a, i) - DigitAt(b, i) - borrow < 0 THEN 1 ELSE 0)

\* a - b, for a >= b
BigSub(a, b) == BigTrim(BigSubFrom(a, b, 1, 0))

\* a < b
BigLt(a, b) ==
  \/ Len(a) < Len(b)
  \/ /\ Len(a) = Len(b)
     /\ \E i \in 1..Len(a) :
          /\ a[i] < b[i]
          /\ \A j \in (i + 1)..Len(a) : a[j] = b[j]

BigLe(a, b) == a = b \/ BigLt(a, b)

RECURSIVE BigMulSmallFrom(_, _, _, _)
BigMulSmallFrom(a, m, i, carry) ==
  IF i > Len(a) THEN BigOf(carry)
  ELSE <<(a[i] * m + carry) % Base>>
       \o BigMulSmallFrom(a, m, i + 1, (a[i] * m + carry) \div Base)

\* a * m, for an integer 0 <= m < 10^6
BigMulSmall(a, m) == IF m = 0 THEN <<>> ELSE BigMulSmallFrom(a, m, 1, 0)

\* a * Base
BigShift(a) == IF a = <<>> THEN <<>> ELSE <<0>> \o a

RECURSIVE BigMulFrom(_, _, _, _)
\* a times the digits of b from digit i down, after acc = a times the digits
\* of b above digit i
BigMulFrom(a, b, i, acc) ==
  IF i = 0 THEN acc
  ELSE IF acc = <<>> /\ b[i] = 0 THEN BigMulFrom(a, b, i - 1, <<>>)
  ELSE BigMulFrom(a, b, i - 1, BigAdd(BigMulSmall(a, b[i]), BigShift(acc)))

\* a * b
BigMul(a, b) == BigMulFrom(a, b, Len(b), <<>>)

RECURSIVE BigModSmall(_, _)
\* a % d as an integer, for an integer 0 < d < 10^6
BigModSmall(a, d) ==
  IF a = <<>> THEN 0 ELSE (BigModSmall(Tail(a), d) * Base + Head(a)) % d

RECURSIVE BigDivSmallDigits(_, _)
BigDivSmallDigits(a, d) ==
  IF a = <<>> THEN <<>>
  ELSE <<(BigModSmall(Tail(a), d) * Base + Head(a)) \div d>>
       \o BigDivSmallDigits(Tail(a), d)

\* a / d, for an integer 0 < d < 10^6
BigDivSmall(a, d) == BigTrim(BigDivSmallDigits(a, d))

RECURSIVE QuotientDigit(_, _, _, _)
\* the largest t in lo..hi with b * t <= rem, by bisection
QuotientDigit(rem, b, lo, hi) ==
  IF lo = hi THEN lo
  ELSE IF BigLe(BigMulSmall(b, (lo + hi + 1) \div 2), rem)
    THEN QuotientDigit(rem, b, (lo + hi + 1) \div 2, hi)
  ELSE QuotientDigit(rem, b, lo, ((lo + hi + 1) \div 2) - 1)

\* long division, one digit: from <<q, r>> for the higher digits to
\* <<q', r'>> with the digit d brought down
DivModDigit(qr, d, b) ==
  IF qr[2] = <<>> /\ d = 0
    THEN <<(IF qr[1] = <<>> THEN <<>> ELSE <<0>> \o qr[1]), <<>>>>
  ELSE LET rem == BigAdd(BigShift(qr[2]), BigOf(d))
           t == QuotientDigit(rem, b, 0, Base - 1)
       IN <<(IF qr[1] = <<>> /\ t = 0 THEN <<>> ELSE <<t>> \o qr[1]),
            BigSub(rem, BigMulSmall(b, t))>>

RECURSIVE BigDivModFrom(_, _, _, _)
\* long division of the digits of a from digit i down by b, after the digits
\* above i gave the quotient and the remainder qr; the remainder stays below b
BigDivModFrom(a, b, i, qr) ==
  IF i = 0 THEN qr
  ELSE IF ~BigLt(qr[2], b) THEN qr
  ELSE BigDivModFrom(a, b, i - 1, DivModDigit(qr, a[i], b))

\* <<a / b, a % b>>, for b > 0
BigDivMod(a, b) == BigDivModFrom(a, b, Len(a), <<<<>>, <<>>>>)

BigDiv(a, b) == BigDivMod(a, b)[1]
BigMod(a, b) == BigDivMod(a, b)[2]

BigSquare(a) == BigMul(a, a)

RECURSIVE BigPow(_, _)
\* a to the power k, for an integer k >= 0, by squaring
BigPow(a, k) ==
  IF k = 0 THEN <<1>>
  ELSE IF k % 2 = 0 THEN BigSquare(BigPow(a, k \div 2))
  ELSE BigMul(a, BigSquare(BigPow(a, k \div 2)))

\* the u64 <<hi, lo>> = hi * 10^9 + lo as a number
BigOfU64(n) == BigAdd(BigMul(BigOf(n[1]), BigOf(Limb)), BigOf(n[2]))

----------------------------------------------------------------------------
(* u64 arithmetic.  A debug build halts on overflow, a release build wraps *)
(* modulo 2^64; `checked` says which build runs.                           *)

TwoTo64 == BigPow(<<2>>, 64)

\* the exact value x does not fit a u64
Overflows(x) == BigLe(TwoTo64, x)

\* the u64 a release build computes for the exact value x
Wrap(x) == IF Overflows(x) THEN BigMod(x, TwoTo64) ELSE x

----------------------------------------------------------------------------
(* Text.  A string is the sequence of its characters.                      *)

Letters == <<"a", "b", "c", "d", "e", "f", "g", "h", "i", "j", "k", "l", "m",
             "n", "o", "p", "q", "r", "s", "t", "u", "v", "w", "x", "y", "z">>

Digits == <<"0", "1", "2", "3", "4", "5", "6", "7", "8", "9">>

\* c is one of 'a'..='z'
IsLetter(c) == \E i \in 1..26 : Letters[i] = c

\* c as u64 - 'a' as u64
LetterIndex(c) == (CHOOSE i \in 1..26 : Letters[i] = c) - 1

IsDigit(c) == \E i \in 1..10 : Digits[i] = c

DigitValue(c) == (CHOOSE i \in 1..10 : Digits[i] = c) - 1

\* s.contains(c)
ContainsChar(s, c) == \E i \in 1..Len(s) : s[i] = c

\* the index of the first c in s, 0 when there is none
FirstIndex(s, c) ==
  IF ContainsChar(s, c)
    THEN CHOOSE i \in 1..Len(s) : s[i] = c /\ \A j \in 1..(i - 1) : s[j] # c
  ELSE 0

\* s.split_once(c), for a string that contains c
Before(s, c) == SubSeq(s, 1, FirstIndex(s, c) - 1)
After(s, c) == SubSeq(s, FirstIndex(s, c) + 1, Len(s))

\* the marks of a degree, U+00B0, U+2032, U+2033 and U+2034 in the source
DegreeMark == "deg"
MinuteMark == "'"
SecondMark == "''"
ThirdMark == "'''"

RECURSIVE Reverse(_)
Reverse(s) == IF s = <<>> THEN <<>> ELSE Append(Reverse(Tail(s)), Head(s))

RECURSIVE DigitsOf(_)
\* the decimal digits of a > 0, least significant first
DigitsOf(a) ==
  IF a = <<>> THEN <<>>
  ELSE <<Digits[BigModSmall(a, 10) + 1]>> \o DigitsOf(BigDivSmall(a, 10))

\* Display for u64
FormatU64(a) == IF a = <<>> THEN <<"0">> ELSE Reverse(DigitsOf(a))

NotANumber == [ok |-> FALSE]

RECURSIVE ParseDigits(_, _, _)
\* the digit loop of u64::from_str: an error on a character that is not a
\* digit and on a value past u64::MAX
ParseDigits(s, i, x) ==
  IF i > Len(s) THEN [ok |-> TRUE, value |-> x]
  ELSE IF ~IsDigit(s[i]) THEN NotANumber
  ELSE IF Overflows(BigAdd(BigMulSmall(x, 10), BigOf(DigitValue(s[i])))) THEN NotANumber
  ELSE ParseDigits(s, i + 1, BigAdd(BigMulSmall(x, 10), BigOf(DigitValue(s[i]))))

\* str::parse::<u64>(): an optional '+', then one digit or more
ParseU64(s) ==
  IF s = <<>> THEN NotANumber
  ELSE IF s[1] = "+" THEN (IF Len(s) = 1 THEN NotANumber ELSE ParseDigits(s, 2, <<>>))
  ELSE ParseDigits(s, 1, <<>>)

----------------------------------------------------------------------------
(* The subsidy schedule: Epoch and Height                                  *)

COIN_VALUE == 10^8
SUBSIDY_HALVING_INTERVAL == 210000
DIFFCHANGE_INTERVAL == 2016
CYCLE_EPOCHS == 6

\* the first epoch without subsidy: (50 * COIN_VALUE) >> 33 = 0
FIRST_POST_SUBSIDY == 33

\* Epoch(e).subsidy(), for a number e: (50 * COIN_VALUE) >> e, which is 0
\* from e = 33 on; the shift is made in two halves
EpochSubsidy(e) ==
  IF BigLt(e, BigOf(FIRST_POST_SUBSIDY))
    THEN BigDivSmall(BigDivSmall(BigMulSmall(BigOf(COIN_VALUE), 50),
                                 2^(BigToInt(e) \div 2)),
                     2^(BigToInt(e) - (BigToInt(e) \div 2)))
  ELSE <<>>

\* the identifiers epoch e emits, for an integer e
EpochSize(e) == BigMulSmall(EpochSubsidy(BigOf(e)), SUBSIDY_HALVING_INTERVAL)

RECURSIVE StartingOrdinalsFrom(_, _)
\* the identifiers the epochs lo .. hi emit together: the sum of their sizes,
\* added up by halves
StartingOrdinalsFrom(lo, hi) ==
  IF lo > hi THEN <<>>
  ELSE IF lo = hi THEN EpochSize(lo)
  ELSE BigAdd(StartingOrdinalsFrom(lo, (lo + hi) \div 2),
              StartingOrdinalsFrom(((lo + hi) \div 2) + 1, hi))

\* Epoch::STARTING_ORDINALS: entry e + 1 is the starting ordinal of epoch e,
\* the sum of the sizes of the epochs before it
STARTING_ORDINALS ==
  [e \in 1..(FIRST_POST_SUBSIDY + 1) |-> StartingOrdinalsFrom(0, e - 2)]

\* Epoch(e).starting_ordinal(), for a number e
EpochStartingOrdinal(e) ==
  IF BigLt(e, BigOf(FIRST_POST_SUBSIDY))
    THEN STARTING_ORDINALS[BigToInt(e) + 1]
  ELSE STARTING_ORDINALS[FIRST_POST_SUBSIDY + 1]

\* Epoch::from(Ordinal): the epoch whose identifiers hold n, as an integer
EpochOf(n) ==
  CHOOSE e \in 0..FIRST_POST_SUBSIDY :
    /\ BigLe(STARTING_ORDINALS[e + 1], n)
    /\ e < FIRST_POST_SUBSIDY => BigLt(n, STARTING_ORDINALS[e + 2])

\* Epoch::from(Height), for a number h
EpochOfHeight(h) == BigDivSmall(h, SUBSIDY_HALVING_INTERVAL)

\* Height(h).subsidy()
HeightSubsidy(h) == EpochSubsidy(EpochOfHeight(h))

\* Height(h).starting_ordinal()
HeightStartingOrdinal(h) ==
  BigAdd(EpochStartingOrdinal(EpochOfHeight(h)),
         BigMul(BigOf(BigModSmall(h, SUBSIDY_HALVING_INTERVAL)), HeightSubsidy(h)))

----------------------------------------------------------------------------
(* Ordinal (ordinal.rs); n is a number                                     *)

\* one less
SUPPLY_LESS_ONE == BigOfU64(<<2099999, 997689999>>)
SUPPLY == BigOfU64(<<2099999, 997690000>>)
LAST == BigSub(SUPPLY, <<1>>)

epoch(n) == EpochOf(n)

epoch_position(n) == BigSub(n, EpochStartingOrdinal(BigOf(epoch(n))))

\* as an integer
height(n) ==
  epoch(n) * SUBSIDY_HALVING_INTERVAL
  + BigToInt(BigDiv(epoch_position(n), EpochSubsidy(BigOf(epoch(n)))))

cycle(n) == epoch(n) \div CYCLE_EPOCHS

period(n) == height(n) \div DIFFCHANGE_INTERVAL

third(n) == BigMod(epoch_position(n), EpochSubsidy(BigOf(epoch(n))))

\* the remainder of the ordinal itself, not of its position in the epoch
IsCommonFromZero(n) == BigMod(n, EpochSubsidy(BigOf(epoch(n)))) # <<>>
is_common(n) ==
  BigMod(BigSub(n, EpochStartingOrdinal(BigOf(epoch(n)))),
         EpochSubsidy(BigOf(epoch(n)))) # <<>>

RECURSIVE NameLoop(_)
\* the while loop of name(): the letters pushed, from x
NameLoop(x) ==
  IF x = <<>> THEN <<>>
  ELSE <<Letters[BigModSmall(BigSub(x, <<1>>), 26) + 1]>>
       \o NameLoop(BigDivSmall(BigSub(x, <<1>>), 26))

\* the letters in the order the loop pushes them
NameUnreversed(n) == NameLoop(BigSub(SUPPLY, n))
name(n) == Reverse(NameLoop(BigSub(SUPPLY, n)))

OkOrdinal(n) == [kind |-> "Ok", ordinal |-> n]

RECURSIVE FromNameLoop(_, _, _, _)
\* the for loop of from_name over s from character i, with accumulator x
FromNameLoop(s, i, x, checked) ==
  IF i > Len(s) THEN [kind |-> "Value", x |-> x]
  ELSE IF ~IsLetter(s[i]) THEN Err("invalid character in ordinal name")
  ELSE IF Overflows(BigAdd(BigMulSmall(x, 26), BigOf(LetterIndex(s[i]) + 97))) /\ checked
    THEN Panic("attempt to multiply or add with overflow")
  ELSE FromNameLoop(s, i + 1,
                    Wrap(BigAdd(BigMulSmall(x, 26), BigOf(LetterIndex(s[i]) + 1))),
                    checked)

from_name(s, checked) ==
  LET loop == FromNameLoop(s, 1, <<>>, checked)
  IN IF loop.kind # "Value" THEN loop
     ELSE IF BigLt(SUPPLY, loop.x) THEN Err("ordinal name out of range")
     ELSE OkOrdinal(BigSub(SUPPLY, loop.x))

\* the remainder taken the other way round
PERIOD_INCREMENT == DIFFCHANGE_INTERVAL % SUBSIDY_HALVING_INTERVAL
HALVING_INCREMENT == SUBSIDY_HALVING_INTERVAL % DIFFCHANGE_INTERVAL

\* from_degree after the three offsets are parsed and range-checked: cycle is
\* a number, epoch_offset and period_offset integers, rest the text after the second mark
DegreeOrdinal(cycle_number, epoch_offset, period_offset, rest, checked) ==
  LET cycle_start_epoch == BigMulSmall(cycle_number, CYCLE_EPOCHS)
      relationship == period_offset + SUBSIDY_HALVING_INTERVAL * CYCLE_EPOCHS - epoch_offset
      epochs_since_cycle_start == (relationship % DIFFCHANGE_INTERVAL) \div HALVING_INCREMENT
      exact_epoch == BigAdd(Wrap(cycle_start_epoch), BigOf(epochs_since_cycle_start))
      epoch_start_height == BigMulSmall(Wrap(exact_epoch), SUBSIDY_HALVING_INTERVAL)
      exact_height == BigAdd(Wrap(epoch_start_height), BigOf(epoch_offset))
      h == Wrap(exact_height)
      has_block_offset == ContainsChar(rest, ThirdMark)
      block_offset == IF has_block_offset THEN ParseU64(Before(rest, ThirdMark))
                      ELSE [ok |-> TRUE, value |-> <<>>]
      tail == IF has_block_offset THEN After(rest, ThirdMark) ELSE rest
  IN IF checked /\ Overflows(cycle_start_epoch)
       THEN Panic("attempt to multiply with overflow")
     ELSE IF relationship % HALVING_INCREMENT # 0
       THEN Err("relationship between epoch offset and period offset must be multiple of 336")
     ELSE IF checked /\ Overflows(exact_epoch)
       THEN Panic("attempt to add with overflow")
     ELSE IF checked /\ Overflows(epoch_start_height)
       THEN Panic("attempt to multiply with overflow")
     ELSE IF checked /\ Overflows(exact_height)
       THEN Panic("attempt to add with overflow")
     ELSE IF ~block_offset.ok THEN Err("invalid digit found in string")
     ELSE IF tail # <<>> THEN Err("trailing characters")
     ELSE IF BigLe(HeightSubsidy(h), block_offset.value) THEN Err("invalid block offset")
     ELSE OkOrdinal(BigAdd(HeightStartingOrdinal(h), block_offset.value))

from_degree(degree, checked) ==
  IF ~ContainsChar(degree, DegreeMark) THEN Err("missing degree symbol")
  ELSE IF ~ParseU64(Before(degree, DegreeMark)).ok THEN Err("invalid digit found in string")
  ELSE IF ~ContainsChar(After(degree, DegreeMark), MinuteMark) THEN Err("missing minute symbol")
  ELSE IF ~ParseU64(Before(After(degree, DegreeMark), MinuteMark)).ok
    THEN Err("invalid digit found in string")
  ELSE IF BigLe(BigOf(SUBSIDY_HALVING_INTERVAL),
                ParseU64(Before(After(degree, DegreeMark), MinuteMark)).value)
    THEN Err("invalid epoch offset")
  ELSE IF ~ContainsChar(After(After(degree, DegreeMark), MinuteMark), SecondMark)
    THEN Err("missing second symbol")
  ELSE IF ~ParseU64(Before(After(After(degree, DegreeMark), MinuteMark), SecondMark)).ok
    THEN Err("invalid digit found in string")
  ELSE IF BigLe(BigOf(DIFFCHANGE_INTERVAL),
                ParseU64(Before(After(After(degree, DegreeMark), MinuteMark), SecondMark)).value)
    THEN Err("invalid period offset")
  ELSE DegreeOrdinal(ParseU64(Before(degree, DegreeMark)).value,
                     BigToInt(ParseU64(Before(After(degree, DegreeMark), MinuteMark)).value),
                     BigToInt(ParseU64(Before(After(After(degree, DegreeMark), MinuteMark), SecondMark)).value),
                     After(After(After(degree, DegreeMark), MinuteMark), SecondMark),
                     checked)

\* an offset equal to the subsidy let through
FromDecimalOffsetUpToSubsidy(decimal) ==
  IF ~ContainsChar(decimal, ".") THEN Err("missing period")
  ELSE IF ~ParseU64(Before(decimal, ".")).ok THEN Err("invalid digit found in string")
  ELSE IF ~ParseU64(After(decimal, ".")).ok THEN Err("invalid digit found in string")
  ELSE IF BigLt(HeightSubsidy(ParseU64(Before(decimal, ".")).value),
                ParseU64(After(decimal, ".")).value)
    THEN Err("invalid block offset")
  ELSE OkOrdinal(BigAdd(HeightStartingOrdinal(ParseU64(Before(decimal, ".")).value),
                        ParseU64(After(decimal, ".")).value))
\* the offset within the block dropped
FromDecimalBlockStart(decimal) ==
  IF ~ContainsChar(decimal, ".") THEN Err("missing period")
  ELSE IF ~ParseU64(Before(decimal, ".")).ok THEN Err("invalid digit found in string")
  ELSE IF ~ParseU64(After(decimal, ".")).ok THEN Err("invalid digit found in string")
  ELSE OkOrdinal(HeightStartingOrdinal(ParseU64(Before(decimal, ".")).value))
from_decimal(decimal) ==
  IF ~ContainsChar(decimal, ".") THEN Err("missing period")
  ELSE IF ~ParseU64(Before(decimal, ".")).ok THEN Err("invalid digit found in string")
  ELSE IF ~ParseU64(After(decimal, ".")).ok THEN Err("invalid digit found in string")
  ELSE IF BigLe(HeightSubsidy(ParseU64(Before(decimal, ".")).value),
                ParseU64(After(decimal, ".")).value)
    THEN Err("invalid block offset")
  ELSE OkOrdinal(BigAdd(HeightStartingOrdinal(ParseU64(Before(decimal, ".")).value),
                        ParseU64(After(decimal, ".")).value))

\* Display for Decimal: "{height}.{offset}"
DecimalText(n) == FormatU64(BigOf(height(n))) \o <<".">> \o FormatU64(third(n))

\* Display for Degree: hour, minute, second and third, each followed by its mark
DegreeText(n) ==
  FormatU64(BigOf(cycle(n))) \o <<DegreeMark>>
  \o FormatU64(BigOf(height(n) % SUBSIDY_HALVING_INTERVAL)) \o <<MinuteMark>>
  \o FormatU64(BigOf(height(n) % DIFFCHANGE_INTERVAL)) \o <<SecondMark>>
  \o FormatU64(third(n)) \o <<ThirdMark>>

----------------------------------------------------------------------------
(* f64.  A finite double is held as the exact fraction num / den it        *)
(* stands for (two numbers, den > 0), with its sign; the operations round  *)
(* the exact result to the nearest double, ties to even, as IEEE 754 does. *)

Finite(negative, num, den) ==
  [class |-> "finite", negative |-> negative, num |-> num, den |-> den]
Infinite(negative) == [class |-> "inf", negative |-> negative]
NaN == [class |-> "nan"]

\* num / den >= 2^k, for an integer k
AtLeastPow2(num, den, k) ==
  IF k >= 0 THEN BigLe(BigMul(den, BigPow(<<2>>, k)), num)
  ELSE BigLe(den, BigMul(num, BigPow(<<2>>, -k)))

RECURSIVE Log2Between(_, _, _, _)
\* the largest k in lo..hi with num / den >= 2^k, by bisection
Log2Between(num, den, lo, hi) ==
  IF lo = hi THEN lo
  ELSE IF AtLeastPow2(num, den, (lo + hi + 1) \div 2)
    THEN Log2Between(num, den, (lo + hi + 1) \div 2, hi)
  ELSE Log2Between(num, den, lo, ((lo + hi + 1) \div 2) - 1)

\* floor(log2(num / den)) for num > 0: a number of n digits in base 1000
\* lies between 2^(9n - 9) and 2^(10n)
FloorLog2(num, den) ==
  Log2Between(num, den, 9 * Len(num) - 10 * Len(den) - 9,
              10 * Len(num) - 9 * Len(den) + 9)

\* round-half-even of a / b
RoundedQuotient(a, b) ==
  LET qr == BigDivMod(a, b)
      twice == BigAdd(qr[2], qr[2])
  IN IF BigLt(b, twice) THEN BigAdd(qr[1], <<1>>)
     ELSE IF twice = b /\ BigModSmall(qr[1], 2) = 1 THEN BigAdd(qr[1], <<1>>)
     ELSE qr[1]

\* the double with mantissa m <= 2^53 and exponent e, infinite from 2^1024
Scaled(negative, m, e) ==
  IF m = <<>> THEN Finite(negative, <<>>, <<1>>)
  ELSE IF e >= 971 /\ AtLeastPow2(m, <<1>>, 1024 - e) THEN Infinite(negative)
  ELSE IF e >= 0 THEN Finite(negative, BigMul(m, BigPow(<<2>>, e)), <<1>>)
  ELSE Finite(negative, m, BigPow(<<2>>, -e))

\* the mantissa of num / den at exponent e: round(num / (den * 2^e))
MantissaAt(num, den, e) ==
  IF e >= 0 THEN RoundedQuotient(num, BigMul(den, BigPow(<<2>>, e)))
  ELSE RoundedQuotient(BigMul(num, BigPow(<<2>>, -e)), den)

\* the exponent of the unit in the last place of num / den > 0: 53 bits of
\* mantissa, subnormals from 2^-1074
UlpExponent(num, den) ==
  IF FloorLog2(num, den) - 52 < -1074 THEN -1074 ELSE FloorLog2(num, den) - 52

\* the double nearest to num / den
RoundToF64(negative, num, den) ==
  IF num = <<>> THEN Finite(negative, <<>>, <<1>>)
  ELSE Scaled(negative, MantissaAt(num, den, UlpExponent(num, den)),
              UlpExponent(num, den))

\* a / b for finite a and finite b # 0
F64Div(a, b) ==
  RoundToF64(a.negative # b.negative, BigMul(a.num, b.den), BigMul(a.den, b.num))

\* a * b for finite a and b
F64Mul(a, b) ==
  RoundToF64(a.negative # b.negative, BigMul(a.num, b.num), BigMul(a.den, b.den))

\* n as f64, for a number n
F64OfU64(n) == RoundToF64(FALSE, n, <<1>>)

\* the fraction cut off
TruncatedMagnitude(a) == BigDiv(a.num, a.den)

\* f64::round, half away from zero, of the absolute value of a finite double
RoundedMagnitude(a) ==
  BigDiv(BigAdd(BigAdd(a.num, a.num), a.den), BigAdd(a.den, a.den))

\* x.round() as u64: NaN and negative values give 0, values past u64::MAX
\* give u64::MAX
RoundAsU64(a) ==
  IF a.class = "nan" THEN <<>>
  ELSE IF a.negative THEN <<>>
  ELSE IF a.class = "inf" THEN BigSub(TwoTo64, <<1>>)
  ELSE IF Overflows(RoundedMagnitude(a)) THEN BigSub(TwoTo64, <<1>>)
  ELSE RoundedMagnitude(a)

\* a < 0.0
F64Negative(a) ==
  /\ a.class # "nan"
  /\ a.negative
  /\ a.class = "inf" \/ a.num # <<>>

UpperLetters == <<"A", "B", "C", "D", "E", "F", "G", "H", "I", "J", "K", "L", "M",
                  "N", "O", "P", "Q", "R", "S", "T", "U", "V", "W", "X", "Y", "Z">>

\* c in lower case
Lower(c) ==
  IF \E i \in 1..26 : UpperLetters[i] = c
    THEN Letters[CHOOSE i \in 1..26 : UpperLetters[i] = c]
  ELSE c

LowerText(s) == [i \in 1..Len(s) |-> Lower(s[i])]

AllDigits(s) == \A i \in 1..Len(s) : IsDigit(s[i])

RECURSIVE DigitsValue(_, _, _)
\* the number the digits of s spell, from character i with accumulator x
DigitsValue(s, i, x) ==
  IF i > Len(s) THEN x
  ELSE IF x = <<>> /\ s[i] = "0" THEN DigitsValue(s, i + 1, <<>>)
  ELSE DigitsValue(s, i + 1, BigAdd(BigMulSmall(x, 10), BigOf(DigitValue(s[i]))))

\* the index of the exponent mark of s, 0 when there is none
ExponentIndex(s) ==
  IF ContainsChar(LowerText(s), "e") THEN FirstIndex(LowerText(s), "e") ELSE 0

\* the decimal exponent clamped to -9999..9999: past that every double is 0
\* or infinite
ClampedExponent(digits) ==
  IF Len(BigTrim(DigitsValue(digits, 1, <<>>))) > 1 \/ Len(digits) > 400 THEN 9999
  ELSE BigToInt(DigitsValue(digits, 1, <<>>))

\* the double nearest to digits * 10^exponent
DecimalToF64(negative, digits, exponent) ==
  IF digits = <<>> THEN Finite(negative, <<>>, <<1>>)
  ELSE IF exponent + 3 * Len(digits) - 3 > 400 THEN Infinite(negative)
  ELSE IF exponent + 3 * Len(digits) < -400 THEN Finite(negative, <<>>, <<1>>)
  ELSE IF exponent >= 0
    THEN RoundToF64(negative, BigMul(digits, BigPow(<<10>>, exponent)), <<1>>)
  ELSE RoundToF64(negative, digits, BigPow(<<10>>, -exponent))

NotAFloat == [ok |-> FALSE]

\* the unsigned part of a float literal: inf, infinity or nan in any case,
\* or digits with an optional point and an optional exponent
ParseUnsignedF64(negative, s) ==
  LET lower == LowerText(s)
      at == ExponentIndex(s)
      mantissa == IF at = 0 THEN s ELSE SubSeq(s, 1, at - 1)
      exp_text == IF at = 0 THEN <<>> ELSE SubSeq(s, at + 1, Len(s))
      exp_negative == exp_text # <<>> /\ exp_text[1] = "-"
      exp_digits == IF exp_text # <<>> /\ exp_text[1] \in {"+", "-"}
                      THEN Tail(exp_text) ELSE exp_text
      whole == IF ContainsChar(mantissa, ".") THEN Before(mantissa, ".") ELSE mantissa
      fraction == IF ContainsChar(mantissa, ".") THEN After(mantissa, ".") ELSE <<>>
      exponent == (IF at = 0 THEN 0
                   ELSE IF exp_negative THEN -ClampedExponent(exp_digits)
                   ELSE ClampedExponent(exp_digits))
                  - Len(fraction)
  IN IF lower \in {<<"i", "n", "f">>, <<"i", "n", "f", "i", "n", "i", "t", "y">>}
       THEN [ok |-> TRUE, value |-> Infinite(negative)]
     ELSE IF lower = <<"n", "a", "n">> THEN [ok |-> TRUE, value |-> NaN]
     ELSE IF ~AllDigits(whole) \/ ~AllDigits(fraction) \/ whole \o fraction = <<>>
       THEN NotAFloat
     ELSE IF at # 0 /\ (exp_digits = <<>> \/ ~AllDigits(exp_digits)) THEN NotAFloat
     ELSE [ok |-> TRUE,
           value |-> DecimalToF64(negative, DigitsValue(whole \o fraction, 1, <<>>),
                                  exponent)]

\* str::parse::<f64>()
ParseF64(s) ==
  IF s = <<>> THEN NotAFloat
  ELSE IF s[1] \in {"+", "-"} THEN ParseUnsignedF64(s[1] = "-", Tail(s))
  ELSE ParseUnsignedF64(FALSE, s)

from_percentile(percentile) ==
  LET parsed_float == ParseF64(SubSeq(percentile, 1, Len(percentile) - 1))
      p == parsed_float.value
      n == IF p.class # "finite" THEN RoundAsU64(p)
           ELSE RoundAsU64(F64Mul(F64Div(p, F64OfU64(<<100>>)), F64OfU64(LAST)))
  IN IF percentile = <<>> \/ percentile[Len(percentile)] # "%"
       THEN Err("invalid percentile")
     ELSE IF ~parsed_float.ok THEN Err("invalid float literal")
     ELSE IF F64Negative(p) THEN Err("invalid percentile")
     ELSE IF BigLt(LAST, n) THEN Err("invalid percentile")
     ELSE OkOrdinal(n)

\* the decimal point looked for before the percent sign
FromStrDecimalFirst(s, checked) ==
  IF \E i \in 1..Len(s) : IsLetter(s[i]) THEN from_name(s, checked)
  ELSE IF ContainsChar(s, DegreeMark) THEN from_degree(s, checked)
  ELSE IF ContainsChar(s, ".") THEN from_decimal(s)
  ELSE IF ContainsChar(s, "%") THEN from_percentile(s)
  ELSE IF ~ParseU64(s).ok THEN Err("invalid digit found in string")
  ELSE IF BigLt(LAST, ParseU64(s).value) THEN Err("invalid ordinal")
  ELSE OkOrdinal(ParseU64(s).value)
\* impl FromStr for Ordinal
from_str(s, checked) ==
  IF \E i \in 1..Len(s) : IsLetter(s[i]) THEN from_name(s, checked)
  ELSE IF ContainsChar(s, DegreeMark) THEN from_degree(s, checked)
  ELSE IF ContainsChar(s, "%") THEN from_percentile(s)
  ELSE IF ContainsChar(s, ".") THEN from_decimal(s)
  ELSE IF ~ParseU64(s).ok THEN Err("invalid digit found in string")
  ELSE IF BigLt(LAST, ParseU64(s).value) THEN Err("invalid ordinal")
  ELSE OkOrdinal(ParseU64(s).value)

----------------------------------------------------------------------------
(* Display for f64: the shortest decimal digits that parse back to the     *)
(* same double, the nearest to it among those, written without exponent.   *)

\* a and b are the same finite double
F64Same(a, b) ==
  /\ a.class = "finite"
  /\ b.class = "finite"
  /\ BigMul(a.num, b.den) = BigMul(b.num, a.den)

\* num / den >= 10^k, for an integer k
AtLeastPow10(num, den, k) ==
  IF k >= 0 THEN BigLe(BigMul(den, BigPow(<<10>>, k)), num)
  ELSE BigLe(den, BigMul(num, BigPow(<<10>>, -k)))

RECURSIVE Log10Between(_, _, _, _)
\* the largest k in lo..hi with num / den >= 10^k, by bisection
Log10Between(num, den, lo, hi) ==
  IF lo = hi THEN lo
  ELSE IF AtLeastPow10(num, den, (lo + hi + 1) \div 2)
    THEN Log10Between(num, den, (lo + hi + 1) \div 2, hi)
  ELSE Log10Between(num, den, lo, ((lo + hi + 1) \div 2) - 1)

\* floor(log10(num / den)) for num > 0: a number of n digits in base 1000
\* lies between 10^(3n - 3) and 10^(3n)
FloorLog10(num, den) ==
  Log10Between(num, den, 3 * Len(num) - 3 * Len(den) - 3, 3 * Len(num) - 3 * Len(den) + 3)

\* floor(x * 10^k) for the finite double x > 0
ScaledDown(x, k) ==
  IF k >= 0 THEN BigDiv(BigMul(x.num, BigPow(<<10>>, k)), x.den)
  ELSE BigDiv(x.num, BigMul(x.den, BigPow(<<10>>, -k)))

\* c / 10^k parses to the double x
ParsesBack(x, c, k) == F64Same(DecimalToF64(FALSE, c, -k), x)

\* c / 10^k is at least as near to x as (c + 1) / 10^k:
\* 2 * x * 10^k <= 2 * c + 1
LowerIsNearer(x, c, k) ==
  IF k >= 0
    THEN BigLe(BigMul(BigAdd(x.num, x.num), BigPow(<<10>>, k)),
               BigMul(BigAdd(BigAdd(c, c), <<1>>), x.den))
  ELSE BigLe(BigAdd(x.num, x.num),
             BigMul(BigMul(BigAdd(BigAdd(c, c), <<1>>), x.den), BigPow(<<10>>, -k)))

\* the decimal point position of the d-digit renderings of x > 0
PointAt(x, d) == d - 1 - FloorLog10(x.num, x.den)

\* some decimal of d significant digits parses back to x > 0
EnoughDigits(x, d) ==
  \/ ParsesBack(x, ScaledDown(x, PointAt(x, d)), PointAt(x, d))
  \/ ParsesBack(x, BigAdd(ScaledDown(x, PointAt(x, d)), <<1>>), PointAt(x, d))

RECURSIVE FewestDigits(_, _, _)
\* the least d in lo..hi with EnoughDigits(x, d); 17 digits are always enough
FewestDigits(x, lo, hi) ==
  IF lo = hi THEN lo
  ELSE IF EnoughDigits(x, (lo + hi) \div 2) THEN FewestDigits(x, lo, (lo + hi) \div 2)
  ELSE FewestDigits(x, ((lo + hi) \div 2) + 1, hi)

\* the digits c of the shortest rendering c / 10^k of x > 0, for k = PointAt(x, d)
ShortestDigits(x, d) ==
  LET lower == ScaledDown(x, PointAt(x, d))
      upper == BigAdd(lower, <<1>>)
  IN IF ~ParsesBack(x, upper, PointAt(x, d)) THEN lower
     ELSE IF ~ParsesBack(x, lower, PointAt(x, d)) THEN upper
     ELSE IF LowerIsNearer(x, lower, PointAt(x, d)) THEN lower
     ELSE upper

RECURSIVE Zeros(_)
Zeros(k) == IF k <= 0 THEN <<>> ELSE <<"0">> \o Zeros(k - 1)

RECURSIVE WithoutTrailingZeros(_)
WithoutTrailingZeros(s) ==
  IF s # <<>> /\ s[Len(s)] = "0" THEN WithoutTrailingZeros(SubSeq(s, 1, Len(s) - 1)) ELSE s

\* the digits s, standing for the number s / 10^k, written with a decimal
\* point and without exponent
Positional(s, k) ==
  IF k <= 0 THEN s \o Zeros(-k)
  ELSE IF k >= Len(s) THEN <<"0", ".">> \o Zeros(k - Len(s)) \o WithoutTrailingZeros(s)
  ELSE IF WithoutTrailingZeros(SubSeq(s, Len(s) - k + 1, Len(s))) = <<>>
    THEN SubSeq(s, 1, Len(s) - k)
  ELSE SubSeq(s, 1, Len(s) - k) \o <<".">>
       \o WithoutTrailingZeros(SubSeq(s, Len(s) - k + 1, Len(s)))

\* format!("{}", x) for a finite double x >= 0
DisplayF64(x) ==
  IF x.num = <<>> THEN <<"0">>
  ELSE Positional(FormatU64(ShortestDigits(x, FewestDigits(x, 1, 17))),
                  PointAt(x, FewestDigits(x, 1, 17)))

\* Ordinal::percentile
percentile(n) ==
  DisplayF64(F64Mul(F64Div(F64OfU64(n), F64OfU64(LAST)), F64OfU64(<<100>>))) \o <<"%">>

\* the texts handed to from_str, by the decoder that takes them
NameTexts ==
  { <<"a">>,
    <<"n", "v", "t", "d", "i", "j", "u", "w", "x", "l", "p">>,
    <<"b">>,
    <<"z", "z">>,
    <<"a", "0">>,
    <<"a", "%">>,
    <<"a", ".", "1">>,
    <<"0", DegreeMark, "a">>,
    <<"1", "e", "2", "%">>,
    <<"a", "a", "a", "a", "a", "a", "a", "a", "a", "a", "a", "a", "a", "a", "a", "a">>,
    <<"n", "v", "t", "d", "i", "j", "u", "w", "x", "l", "q">>,
    <<"g", "k", "g", "w", "b", "y", "l", "w", "r", "x", "t", "l", "p", "q">>,
    <<"g", "k", "g", "w", "b", "y", "l", "w", "r", "x", "t", "l", "p", "p">>,
    <<"g", "k", "h", "k", "y", "s", "q", "g", "c", "t", "r", "k", "c", "g">> }

DegreeTexts ==
  { <<"0", DegreeMark, "0", MinuteMark, "0", SecondMark, "0", ThirdMark>>,
    <<"0", DegreeMark, "0", MinuteMark, "0", SecondMark>>,
    <<"0", DegreeMark, "1", "6", "8", "0", MinuteMark, "0", SecondMark, "0", ThirdMark>>,
    <<"0", DegreeMark, "1", "6", "8", "0", MinuteMark, "3", "3", "6", SecondMark, "0", ThirdMark>>,
    <<"0", DegreeMark, "1", MinuteMark, "0", SecondMark, "0", ThirdMark>>,
    <<"6", DegreeMark, "0", MinuteMark, "0", SecondMark, "0", ThirdMark>>,
    <<"0", DegreeMark, "0", MinuteMark, "0", SecondMark, "5", "0", "0", "0", "0", "0", "0", "0", "0", "0", ThirdMark>>,
    <<"0", DegreeMark, "0", MinuteMark, "0", SecondMark, "0", ThirdMark, "0">>,
    <<"0", DegreeMark, "2", "1", "0", "0", "0", "0", MinuteMark, "0", SecondMark, "0", ThirdMark>>,
    <<"1", DegreeMark, "%">>,
    <<"0", ".", "0", DegreeMark, "0", MinuteMark, "0", SecondMark, "0", ThirdMark>>,
    <<"9", "2", "2", "3", "3", "7", "2", "0", "3", "6", "8", "5", "4", "7", "7", "5", "8", "0", "8", DegreeMark, "0", MinuteMark, "0", SecondMark, "0", ThirdMark>>,
    <<"0", DegreeMark, "0", MinuteMark, "2", "0", "1", "6", SecondMark, "0", ThirdMark>>,
    <<"0", DegreeMark, "0", MinuteMark, "0">>,
    <<"0", DegreeMark, "0">>,
    <<"5", DegreeMark, "0", MinuteMark, "1", "0", "0", "8", SecondMark, "0", ThirdMark>>,
    <<"5", DegreeMark, "2", "0", "9", "9", "9", "9", MinuteMark, "1", "0", "0", "7", SecondMark, "0", ThirdMark>>,
    <<"3", "0", "7", "4", "4", "5", "7", "3", "4", "5", "6", "1", "8", "2", "5", "8", "6", "0", "3", DegreeMark, "0", MinuteMark, "0", SecondMark, "0", ThirdMark>>,
    <<"5", DegreeMark, "0", MinuteMark, "0", SecondMark>>,
    <<"0", DegreeMark, "0", MinuteMark, "0", SecondMark, "4", "9", "9", "9", "9", "9", "9", "9", "9", "9", ThirdMark>> }

PercentileTexts ==
  { <<"0", "%">>,
    <<"1", "0", "0", "%">>,
    <<"5", "0", "%">>,
    <<"1", "0", "1", "%">>,
    <<"-", "1", "%">>,
    <<"1", ".", "5", "%">>,
    <<"%">>,
    <<"5", "%", "0">>,
    <<"N", "A", "N", "%">>,
    <<"I", "N", "F", "%">>,
    <<"-", "0", "%">>,
    <<"1", "E", "2", "%">>,
    <<"1", "0", "0", ".", "0", "0", "0", "0", "0", "0", "0", "0", "0", "0", "0", "0", "0", "1", "%">>,
    <<"-", "0", ".", "0", "0", "0", "0", "0", "0", "0", "0", "0", "0", "0", "0", "0", "0", "0", "1", "%">>,
    <<"9", "9", ".", "9", "9", "9", "9", "9", "9", "9", "9", "9", "9", "9", "9", "9", "9", "%">> }

DecimalTexts ==
  { <<"0", ".", "0">>,
    <<"1", ".", "0">>,
    <<"0", ".", "5", "0", "0", "0", "0", "0", "0", "0", "0", "0">>,
    <<"6", "9", "2", "9", "9", "9", "9", ".", "0">>,
    <<"6", "9", "3", "0", "0", "0", "0", ".", "0">>,
    <<"1", ".">>,
    <<".", "1">>,
    <<"1", ".", "1", ".", "1">>,
    <<"-", "1", ".", "0">>,
    <<"6", "9", "2", "9", "9", "9", "9", ".", "1">>,
    <<"0", ".", "4", "9", "9", "9", "9", "9", "9", "9", "9", "9">>,
    <<"1", "8", "4", "4", "6", "7", "4", "4", "0", "7", "3", "7", "0", "9", "5", "5", "1", "6", "1", "5", ".", "0">>,
    <<".">>,
    <<"2", "1", "0", "0", "0", "0", ".", "2", "5", "0", "0", "0", "0", "0", "0", "0", "0">> }

IntegerTexts ==
  { <<"0">>,
    <<"7">>,
    <<"+", "7">>,
    <<"-", "7">>,
    <<>>,
    <<"2", "0", "9", "9", "9", "9", "9", "9", "9", "7", "6", "8", "9", "9", "9", "9">>,
    <<"2", "0", "9", "9", "9", "9", "9", "9", "9", "7", "6", "9", "0", "0", "0", "0">>,
    <<"1", "8", "4", "4", "6", "7", "4", "4", "0", "7", "3", "7", "0", "9", "5", "5", "1", "6", "1", "6">>,
    <<"A">>,
    <<"1", " ">> }

SampleTexts == NameTexts \cup DegreeTexts \cup PercentileTexts \cup DecimalTexts \cup IntegerTexts

----------------------------------------------------------------------------
(* Rarity::from(Ordinal) over the whole supply                             *)

rarity(n) ==
  IF n = <<>> THEN "Mythic"
  ELSE IF third(n) = <<>> /\ epoch_position(n) = <<>> /\ epoch(n) % CYCLE_EPOCHS = 0
    THEN "Legendary"
  ELSE IF third(n) = <<>> /\ epoch_position(n) = <<>> THEN "Epic"
  ELSE IF third(n) = <<>> /\ height(n) % DIFFCHANGE_INTERVAL = 0 THEN "Rare"
  ELSE IF third(n) = <<>> THEN "Uncommon"
  ELSE "Common"

----------------------------------------------------------------------------
(* The notations as a state machine.  number is the Ordinal at hand, text  *)
(* its rendering or the argument of from_str, notation the rendering       *)
(* taken, answer what from_str or the classifiers returned.  The build     *)
(* profile decides whether an overflowing u64 operation panics (checked)   *)
(* or wraps.                                                               *)

\* heights within an epoch that the identifiers are taken from
HeightOffsets == <<0, 1, 1680, 209999, 2016>>
\* how many of them are taken
MaxHeights == 3
\* how many leading positions of a block are taken, besides its last one
MaxThirds == 2

\* the positions taken within a block of the given subsidy
SampleThirds(subsidy) ==
  {BigOf(t) : t \in {t \in 0..(MaxThirds - 1) : BigLt(BigOf(t), subsidy)}}
    \cup {BigSub(subsidy, <<1>>)}

SampleHeights ==
  {e * SUBSIDY_HALVING_INTERVAL + HeightOffsets[i] :
     e \in 0..(FIRST_POST_SUBSIDY - 1), i \in 1..MaxHeights}

\* identifiers of every epoch: the first, second and last of the sampled blocks
Identifiers ==
  UNION {{BigAdd(HeightStartingOrdinal(BigOf(h)), t) :
            t \in SampleThirds(HeightSubsidy(BigOf(h)))} : h \in SampleHeights}
    \cup {LAST}

\* how many n the cases of tests::percentile_round_trip are taken for
MaxPercentiles == 3

\* the identifiers of tests::percentile_round_trip: n, LAST / 2 + n, LAST - n
\* and LAST / (n + 1)
PercentileIdentifiers ==
  UNION {{BigOf(n), BigAdd(BigDivSmall(LAST, 2), BigOf(n)), BigSub(LAST, BigOf(n)),
          BigDivSmall(LAST, n + 1)} : n \in 0..(MaxPercentiles - 1)}

BuilderIdle ==
  /\ ranges = <<>>
  /\ ordinal = <<0, 0>>
  /\ recipient = "none"
  /\ change_addresses = {}
  /\ unused_change_addresses = <<>>
  /\ utxos = {}
  /\ inputs = <<>>
  /\ outputs = <<>>
  /\ result = NoResult

InitOrdinal ==
  /\ BuilderIdle
  /\ ProcessIdle
  /\ IndexIdle
  /\ answer = NoResult
  /\ notation = "none"
  /\ \/ /\ pc = "ordinal"
        /\ number \in Identifiers
        /\ text = <<>>
        /\ mined = <<>>
        /\ supply_height = 0
     \/ /\ pc = "percentile"
        /\ number \in PercentileIdentifiers
        /\ text = <<>>
        /\ mined = <<>>
        /\ supply_height = 0
     \/ /\ pc = "from_str"
        /\ number = <<>>
        /\ text \in SampleTexts
        /\ mined = <<>>
        /\ supply_height = 0
     \/ /\ pc = "supply"
        /\ number = <<>>
        /\ text = <<>>
        /\ mined = <<>>
        /\ supply_height = 0

builder == <<ranges, ordinal, recipient, change_addresses, unused_change_addresses,
             utxos, inputs, outputs, result>>

\* Ordinal::name
render_name ==
  /\ pc = "ordinal"
  /\ text' = name(number)
  /\ notation' = "name"
  /\ pc' = "from_str"
  /\ UNCHANGED <<builder, process, index, number, answer, mined, supply_height>>

\* Ordinal::decimal().to_string()
render_decimal ==
  /\ pc = "ordinal"
  /\ text' = DecimalText(number)
  /\ notation' = "decimal"
  /\ pc' = "from_str"
  /\ UNCHANGED <<builder, process, index, number, answer, mined, supply_height>>

\* Ordinal::degree().to_string()
render_degree ==
  /\ pc = "ordinal"
  /\ text' = DegreeText(number)
  /\ notation' = "degree"
  /\ pc' = "from_str"
  /\ UNCHANGED <<builder, process, index, number, answer, mined, supply_height>>

\* Ordinal::to_string
render_integer ==
  /\ pc = "ordinal"
  /\ text' = FormatU64(number)
  /\ notation' = "integer"
  /\ pc' = "from_str"
  /\ UNCHANGED <<builder, process, index, number, answer, mined, supply_height>>

\* Ordinal::percentile
render_percentile ==
  /\ pc = "percentile"
  /\ text' = percentile(number)
  /\ notation' = "percentile"
  /\ pc' = "from_str"
  /\ UNCHANGED <<builder, process, index, number, answer, mined, supply_height>>

\* text.parse::<Ordinal>()
parse ==
  /\ pc = "from_str"
  /\ \E checked \in BOOLEAN : answer' = from_str(text, checked)
  /\ pc' = "done"
  /\ UNCHANGED <<builder, process, index, number, text, notation, mined, supply_height>>

\* Ordinal::rarity and Ordinal::is_common of number
classify ==
  /\ pc = "ordinal"
  /\ answer' = [kind |-> "Rarity", rarity |-> rarity(number),
                is_common |-> is_common(number)]
  /\ pc' = "done"
  /\ UNCHANGED <<builder, process, index, number, text, notation, mined, supply_height>>

\* the heights from h to the end of the epoch of h
HeightsLeftInEpoch(h) == SUBSIDY_HALVING_INTERVAL - (h % SUBSIDY_HALVING_INTERVAL)

\* the loop of tests::supply.  One step runs the loop body for the heights
\* from supply_height to the end of its epoch, which all have the subsidy
\* of supply_height
mine ==
  /\ pc = "supply"
  /\ HeightSubsidy(BigOf(supply_height)) # <<>>
  /\ mined' = BigAdd(mined, BigMul(BigOf(HeightsLeftInEpoch(supply_height)),
                                   HeightSubsidy(BigOf(supply_height))))
  /\ supply_height' = supply_height + HeightsLeftInEpoch(supply_height)
  /\ UNCHANGED <<builder, process, index, number, text, notation, answer, pc>>

\* the break of the loop, at the first height without subsidy
mined_out ==
  /\ pc = "supply"
  /\ HeightSubsidy(BigOf(supply_height)) = <<>>
  /\ pc' = "done"
  /\ UNCHANGED <<builder, process, index, number, text, notation, answer, mined, supply_height>>

NextOrdinal ==
  \/ render_name
  \/ render_decimal
  \/ render_degree
  \/ render_integer
  \/ render_percentile
  \/ parse
  \/ classify
  \/ mine
  \/ mined_out

SpecOrdinal == InitOrdinal /\ [][NextOrdinal]_vars

----------------------------------------------------------------------------
(* Properties of the notations *)

\* C15: parsing name(i) gives back i for every identifier i; name(0) is
\* "nvtdijuwxlp", name(SUPPLY - 1) is "a", and a name is a non-empty string
\* of the letters a..z only, so that from_str hands it to the name decoder.
C15_NameRoundTrip ==
  /\ notation = "name" =>
       /\ text # <<>>
       /\ \A i \in 1..Len(text) : IsLetter(text[i])
       /\ number = <<>> =>
            text = <<"n", "v", "t", "d", "i", "j", "u", "w", "x", "l", "p">>
       /\ number = LAST => text = <<"a">>
  /\ notation = "name" /\ pc = "done" => answer = OkOrdinal(number)

\* a name of eleven letters, past the first identifier, was read back
C15_Witness ==
  /\ notation = "name"
  /\ pc = "done"
  /\ number # <<>>
  /\ Len(text) = 11
  /\ answer = OkOrdinal(number)

\* C16: parsing "<height(i)>.<third(i)>" gives back i for every identifier
\* i: i is the starting ordinal of its height plus its third, and the third
\* is below the subsidy of the height, also in the last epoch of subsidy 1.
C16_DecimalRoundTrip ==
  /\ notation = "decimal" =>
       /\ text = FormatU64(BigOf(height(number))) \o <<".">> \o FormatU64(third(number))
       /\ number = BigAdd(HeightStartingOrdinal(BigOf(height(number))), third(number))
       /\ BigLt(third(number), HeightSubsidy(BigOf(height(number))))
  /\ notation = "decimal" /\ pc = "done" => answer = OkOrdinal(number)

\* an identifier past the first of its block, in an epoch whose subsidy is
\* not a whole halving of the first, was read back from its decimal
C16_Witness ==
  /\ notation = "decimal"
  /\ pc = "done"
  /\ epoch(number) >= 10
  /\ third(number) # <<>>
  /\ answer = OkOrdinal(number)

\* an identifier of the last epoch was read back from its decimal
C16_WitnessLastEpoch ==
  /\ notation = "decimal"
  /\ pc = "done"
  /\ HeightSubsidy(BigOf(height(number))) = <<1>>
  /\ answer = OkOrdinal(number)

\* the epoch within the cycle that from_degree recovers from the two offsets
EpochWithinCycle(epoch_offset, period_offset) ==
  ((period_offset + SUBSIDY_HALVING_INTERVAL * CYCLE_EPOCHS - epoch_offset)
     % DIFFCHANGE_INTERVAL) \div 336

\* 1 054 200 000 000 000, the first identifier of height 210 000 + 1680
FirstOfHeight211680 == BigOfU64(<<1054200, 0>>)

\* C17: decoding the degree (cycle, height mod 210 000, height mod 2016,
\* third) of an identifier i gives back i; the epoch within the cycle
\* recovered from the two offsets is epoch(i) mod 6, so that height
\* 210 000 + 1680 decodes to 1 054 200 000 000 000.
C17_DegreeRoundTrip ==
  /\ notation = "degree" =>
       /\ text = FormatU64(BigOf(cycle(number))) \o <<DegreeMark>>
                 \o FormatU64(BigOf(height(number) % SUBSIDY_HALVING_INTERVAL))
                 \o <<MinuteMark>>
                 \o FormatU64(BigOf(height(number) % DIFFCHANGE_INTERVAL))
                 \o <<SecondMark>>
                 \o FormatU64(third(number)) \o <<ThirdMark>>
       /\ EpochWithinCycle(height(number) % SUBSIDY_HALVING_INTERVAL,
                           height(number) % DIFFCHANGE_INTERVAL)
            = epoch(number) % CYCLE_EPOCHS
  /\ notation = "degree" /\ pc = "done" => answer = OkOrdinal(number)
  /\ pc = "done" /\ text = <<"0", DegreeMark, "1", "6", "8", "0", MinuteMark,
                              "0", SecondMark, "0", ThirdMark>>
       => answer = OkOrdinal(FirstOfHeight211680)

\* the first identifier of height 210 000 + 1680 was rendered as a degree
\* and read back
C17_Witness ==
  /\ notation = "degree"
  /\ pc = "done"
  /\ number = FirstOfHeight211680
  /\ height(number) = SUBSIDY_HALVING_INTERVAL + 1680
  /\ answer = OkOrdinal(number)

\* C18: is_common(n) holds exactly when rarity(n) is Common; identifier 0,
\* the first identifier of every block and every identifier of the last
\* epoch are not common under either.
C18_IsCommonAgreesWithRarity ==
  answer.kind = "Rarity" =>
    /\ answer.is_common <=> answer.rarity = "Common"
    /\ number = <<>> => ~answer.is_common
    /\ number = HeightStartingOrdinal(BigOf(height(number))) => ~answer.is_common
    /\ epoch(number) = FIRST_POST_SUBSIDY - 1 => ~answer.is_common

\* a common identifier of an epoch whose start is not a multiple of its
\* subsidy was classified
C18_Witness ==
  /\ answer.kind = "Rarity"
  /\ answer.is_common
  /\ answer.rarity = "Common"
  /\ BigMod(EpochStartingOrdinal(BigOf(epoch(number))),
            EpochSubsidy(BigOf(epoch(number)))) # <<>>

\* the first identifier of a block of the last epoch was classified
C18_WitnessLastEpoch ==
  /\ answer.kind = "Rarity"
  /\ ~answer.is_common
  /\ epoch(number) = FIRST_POST_SUBSIDY - 1
  /\ number # LAST

\* C19: the subsidies of the heights 0, 1, 2, ... up to the first height
\* of subsidy 0 sum to SUPPLY = 2 099 999 997 690 000; that height is
\* 6 930 000, and LAST = SUPPLY - 1 is the one identifier of height 6 929 999.
C19_SupplyIsSumOfSubsidies ==
  pc = "done" /\ notation = "none" /\ answer = NoResult =>
    /\ mined = SUPPLY
    /\ FormatU64(mined) = <<"2", "0", "9", "9", "9", "9", "9", "9", "9", "7",
                            "6", "9", "0", "0", "0", "0">>
    /\ supply_height = 6930000
    /\ LAST = BigSub(SUPPLY, <<1>>)
    /\ height(LAST) = supply_height - 1
    /\ HeightSubsidy(BigOf(supply_height - 1)) = <<1>>
    /\ HeightStartingOrdinal(BigOf(supply_height - 1)) = LAST

\* the loop of tests::supply has left at the first height without subsidy
C19_Witness ==
  /\ pc = "done"
  /\ mined # <<>>
  /\ HeightSubsidy(BigOf(supply_height)) = <<>>
  /\ HeightSubsidy(BigOf(supply_height - 1)) # <<>>

HasLetter(s) == \E i \in 1..Len(s) : s[i] \in RangeOf(Letters)
Has(s, c) == \E i \in 1..Len(s) : s[i] = c

\* r is what reading s as a plain unsigned integer below SUPPLY gives
PlainInteger(s, r) ==
  IF ParseU64(s).ok /\ BigLt(ParseU64(s).value, SUPPLY)
    THEN r = OkOrdinal(ParseU64(s).value)
  ELSE r.kind = "Err"

\* r is a result of the one decoder that the precedence name, degree,
\* percentile, decimal, integer gives s
Dispatched(s, r) ==
  IF HasLetter(s) THEN \E checked \in BOOLEAN : r = from_name(s, checked)
  ELSE IF Has(s, DegreeMark) THEN \E checked \in BOOLEAN : r = from_degree(s, checked)
  ELSE IF Has(s, "%") THEN r = from_percentile(s)
  ELSE IF Has(s, ".") THEN r = from_decimal(s)
  ELSE PlainInteger(s, r)

\* C20: from_str(s) is the result of the name decoder if s has a letter
\* a..z, else of the degree decoder if s has a degree mark, else of the
\* percentile decoder if s has '%', else of the decimal decoder if s has
\* '.', else s is read as a plain integer accepted only below SUPPLY; the
\* failure of the decoder taken is the result.
C20_DispatchPrecedence ==
  pc = "done" /\ notation = "none" /\ answer.kind \in {"Ok", "Err", "Panic"} =>
    Dispatched(text, answer)

\* a text with both '%' and '.' was read as a percentile
C20_Witness ==
  /\ pc = "done"
  /\ notation = "none"
  /\ text = <<"1", ".", "5", "%">>
  /\ answer.kind = "Ok"
  /\ from_decimal(text).kind = "Err"

\* a text with a letter and '%' failed in the name decoder
C20_WitnessNameFails ==
  /\ pc = "done"
  /\ text = <<"a", "%">>
  /\ answer = Err("invalid character in ordinal name")

\* an integer text naming SUPPLY was refused
C20_WitnessSupplyRefused ==
  /\ pc = "done"
  /\ notation = "none"
  /\ ParseU64(text).ok
  /\ ParseU64(text).value = SUPPLY
  /\ answer.kind = "Err"

RECURSIVE LetterValueFrom(_, _, _)
\* the value of the letters of s from character i on, in bijective base 26
\* (a = 1 .. z = 26), after the value x of the letters before
LetterValueFrom(s, i, x) ==
  IF i > Len(s) \/ Len(x) >= i THEN x
  ELSE LetterValueFrom(s, i + 1, BigAdd(BigMulSmall(x, 26), BigOf(LetterIndex(s[i]) + 1)))

\* s is a name that stands for no identifier: it has a character that is no
\* letter, or its value is above SUPPLY
NoIdentifierName(s) ==
  \/ \E i \in 1..Len(s) : ~IsLetter(s[i])
  \/ BigLt(SUPPLY, LetterValueFrom(s, 1, <<>>))

\* C21: the name decoder answers with an error, and does not halt, for
\* every text with a character outside a..z and every letter string whose
\* value exceeds SUPPLY, also for strings of 14 letters or more, whose
\* value is past the range of u64; none of them decodes to an identifier.
C21_NameOutOfRangeIsRejected ==
  pc = "done" /\ notation = "none" /\ HasLetter(text) /\ NoIdentifierName(text)
    => answer.kind = "Err"

\* the same for the names whose value fits the u64 accumulator
C21_NameOutOfRangeIsRejectedWithinU64 ==
  /\ pc = "done"
  /\ notation = "none"
  /\ HasLetter(text)
  /\ NoIdentifierName(text)
  /\ \A i \in 1..Len(text) : IsLetter(text[i])
  /\ ~Overflows(LetterValueFrom(text, 1, <<>>))
  => answer = Err("ordinal name out of range")

\* a name of 14 letters whose value is 2^64 + 1 decoded to the last identifier
C21_WitnessWrappedName ==
  /\ pc = "done"
  /\ Len(text) = 14
  /\ \A i \in 1..Len(text) : IsLetter(text[i])
  /\ LetterValueFrom(text, 1, <<>>) = BigAdd(TwoTo64, <<1>>)
  /\ answer = OkOrdinal(LAST)

\* a name of letters only halted the decoder
C21_WitnessHalted ==
  /\ pc = "done"
  /\ \A i \in 1..Len(text) : IsLetter(text[i])
  /\ BigLt(SUPPLY, LetterValueFrom(text, 1, <<>>))
  /\ answer.kind = "Panic"

\* a name one above the first identifier's was refused
C21_WitnessRefused ==
  /\ pc = "done"
  /\ \A i \in 1..Len(text) : IsLetter(text[i])
  /\ LetterValueFrom(text, 1, <<>>) = BigAdd(SUPPLY, <<1>>)
  /\ answer = Err("ordinal name out of range")

\* the fields of a degree text: the numbers before the degree, minute and
\* second marks, and what follows the second mark
CycleField(s) == ParseU64(Before(s, DegreeMark))
EpochOffsetField(s) == ParseU64(Before(After(s, DegreeMark), MinuteMark))
PeriodOffsetField(s) == ParseU64(Before(After(After(s, DegreeMark), MinuteMark), SecondMark))
AfterSecondMark(s) == After(After(After(s, DegreeMark), MinuteMark), SecondMark)

\* s has the three marks in their order, with a number before each
ThreeFields(s) ==
  /\ Has(s, DegreeMark)
  /\ CycleField(s).ok
  /\ Has(After(s, DegreeMark), MinuteMark)
  /\ EpochOffsetField(s).ok
  /\ Has(After(After(s, DegreeMark), MinuteMark), SecondMark)
  /\ PeriodOffsetField(s).ok

\* P + 210 000 * 6 - E for the offsets of s, both in range
Relationship(s) ==
  BigToInt(PeriodOffsetField(s).value) + SUBSIDY_HALVING_INTERVAL * CYCLE_EPOCHS
    - BigToInt(EpochOffsetField(s).value)

OffsetsInRange(s) ==
  /\ BigLt(EpochOffsetField(s).value, BigOf(SUBSIDY_HALVING_INTERVAL))
  /\ BigLt(PeriodOffsetField(s).value, BigOf(DIFFCHANGE_INTERVAL))

\* the height that the cycle and the offsets of s name, as a number without
\* width
DegreeHeight(s) ==
  BigAdd(BigMulSmall(BigAdd(BigMulSmall(CycleField(s).value, CYCLE_EPOCHS),
                            BigOf((Relationship(s) % DIFFCHANGE_INTERVAL) \div 336)),
                     SUBSIDY_HALVING_INTERVAL),
         EpochOffsetField(s).value)

\* the block offset of s, 0 when s ends at the second mark
BlockOffsetField(s) ==
  IF Has(AfterSecondMark(s), ThirdMark) THEN ParseU64(Before(AfterSecondMark(s), ThirdMark))
  ELSE [ok |-> TRUE, value |-> <<>>]

\* s is a degree that the rules refuse
RefusedDegree(s) ==
  \/ ~Has(After(s, DegreeMark), MinuteMark)
  \/ ~Has(After(After(s, DegreeMark), MinuteMark), SecondMark)
  \/ /\ ThreeFields(s)
     /\ \/ ~OffsetsInRange(s)
        \/ Relationship(s) % 336 # 0
        \/ /\ Has(AfterSecondMark(s), ThirdMark)
           /\ After(AfterSecondMark(s), ThirdMark) # <<>>
        \/ /\ BlockOffsetField(s).ok
           /\ BigLe(HeightSubsidy(DegreeHeight(s)), BlockOffsetField(s).value)

\* s ends at its second mark
SuffixOmitted(s) == ThreeFields(s) /\ AfterSecondMark(s) = <<>>

\* the text at hand went to the degree decoder
DegreeDecoded ==
  pc = "done" /\ notation = "none" /\ ~HasLetter(text) /\ Has(text, DegreeMark)

\* C22: the degree decoder answers with an error when the epoch offset is
\* 210 000 or more, the period offset 2016 or more, P + 210 000 * 6 - E no
\* multiple of 336, the block offset not below the subsidy of the height
\* (so for every cycle from 6 on), a character follows the block-offset
\* mark, or a mark is missing; a degree that ends at its second mark
\* decodes with block offset 0.
C22_InvalidDegreeIsRejected ==
  DegreeDecoded =>
    /\ RefusedDegree(text) => answer.kind = "Err"
    /\ SuffixOmitted(text) /\ ~RefusedDegree(text)
         => answer = OkOrdinal(HeightStartingOrdinal(DegreeHeight(text)))

\* the same for the degrees whose height fits u64
C22_InvalidDegreeIsRejectedWithinU64 ==
  DegreeDecoded /\ (ThreeFields(text) /\ OffsetsInRange(text)
                      => ~Overflows(DegreeHeight(text))) =>
    /\ RefusedDegree(text) => answer.kind = "Err"
    /\ SuffixOmitted(text) /\ ~RefusedDegree(text)
         => answer = OkOrdinal(HeightStartingOrdinal(DegreeHeight(text)))

\* the degree of cycle 2^63 decoded to the first identifier
C22_WitnessWrappedCycle ==
  /\ DegreeDecoded
  /\ ThreeFields(text)
  /\ CycleField(text).value = BigPow(<<2>>, 63)
  /\ answer = OkOrdinal(<<>>)

\* a degree of cycle 6 was refused for its block offset
C22_WitnessCycleSix ==
  /\ DegreeDecoded
  /\ ThreeFields(text)
  /\ CycleField(text).value = <<6>>
  /\ answer = Err("invalid block offset")

\* a degree that ends at its second mark decoded past the first epoch
C22_WitnessSuffixOmitted ==
  /\ DegreeDecoded
  /\ SuffixOmitted(text)
  /\ answer.kind = "Ok"
  /\ answer.ordinal # <<>>

\* the two numbers of a decimal text
HeightField(s) == ParseU64(Before(s, "."))
OffsetField(s) == ParseU64(After(s, "."))

\* the text at hand went to the decimal decoder
DecimalDecoded ==
  /\ pc = "done"
  /\ notation = "none"
  /\ ~HasLetter(text)
  /\ ~Has(text, DegreeMark)
  /\ ~Has(text, "%")
  /\ Has(text, ".")

\* 6 930 000, the first height without subsidy
FirstHeightWithoutSubsidy == BigOf(FIRST_POST_SUBSIDY * SUBSIDY_HALVING_INTERVAL)

\* C23: the decimal decoder answers with an error when the offset is not
\* below the subsidy of the height, so for every offset from height
\* 6 930 000 on, and when the separator or one of the two numbers is
\* missing; it answers with an identifier only for an offset below the
\* subsidy, and then with the starting ordinal of the height plus the offset.
C23_InvalidDecimalIsRejected ==
  /\ DecimalDecoded =>
       /\ ~HeightField(text).ok \/ ~OffsetField(text).ok => answer.kind = "Err"
       /\ HeightField(text).ok /\ OffsetField(text).ok
            /\ BigLe(HeightSubsidy(HeightField(text).value), OffsetField(text).value)
            => answer = Err("invalid block offset")
       /\ HeightField(text).ok /\ BigLe(FirstHeightWithoutSubsidy, HeightField(text).value)
            => answer.kind = "Err"
       /\ answer.kind \in {"Ok", "Err"}
       /\ answer.kind = "Ok" =>
            /\ HeightField(text).ok /\ OffsetField(text).ok
            /\ BigLt(OffsetField(text).value, HeightSubsidy(HeightField(text).value))
            /\ answer.ordinal = BigAdd(HeightStartingOrdinal(HeightField(text).value),
                                       OffsetField(text).value)
            /\ BigLt(answer.ordinal, SUPPLY)
  /\ pc = "done" /\ notation = "none" /\ ~Has(text, ".")
       => from_decimal(text) = Err("missing period")

\* an offset equal to the subsidy of its height was refused
C23_Witness ==
  /\ DecimalDecoded
  /\ HeightField(text).ok
  /\ OffsetField(text).ok
  /\ OffsetField(text).value = HeightSubsidy(HeightField(text).value)
  /\ OffsetField(text).value # <<>>
  /\ answer = Err("invalid block offset")

\* offset 0 at height 6 930 000 was refused
C23_WitnessPastLastBlock ==
  /\ DecimalDecoded
  /\ HeightField(text).ok
  /\ HeightField(text).value = FirstHeightWithoutSubsidy
  /\ answer = Err("invalid block offset")

\* the last offset of a block decoded
C23_WitnessLastOffset ==
  /\ DecimalDecoded
  /\ answer.kind = "Ok"
  /\ BigAdd(OffsetField(text).value, <<1>>) = HeightSubsidy(HeightField(text).value)
  /\ OffsetField(text).value # <<>>

\* the double that the text before the percent sign parses to
PercentileField(s) == ParseF64(SubSeq(s, 1, Len(s) - 1))

\* the double i / (SUPPLY - 1) * 100
PercentileOf(i) == F64Mul(F64Div(F64OfU64(i), F64OfU64(LAST)), F64OfU64(<<100>>))

\* the text at hand went to the percentile decoder
PercentileDecoded ==
  /\ pc = "done"
  /\ notation = "none"
  /\ ~HasLetter(text)
  /\ ~Has(text, DegreeMark)
  /\ Has(text, "%")

\* p < 0 or p > 100, for a double p that is a number
OutsidePercentiles(p) ==
  \/ p.class = "inf"
  \/ /\ p.class = "finite"
     /\ \/ p.negative /\ p.num # <<>>
        \/ ~p.negative /\ BigLt(BigMulSmall(p.den, 100), p.num)

\* C24: parsing percentile(i), the shortest rendering of the double
\* i / (SUPPLY - 1) * 100 followed by '%', gives back i for every
\* identifier i, and the percentile decoder refuses every p < 0 and every
\* p > 100.
C24_PercentileRoundTrip ==
  /\ notation = "percentile" =>
       /\ text[Len(text)] = "%"
       /\ PercentileField(text).ok
       /\ F64Same(PercentileField(text).value, PercentileOf(number))
  /\ notation = "percentile" /\ pc = "done" => answer = OkOrdinal(number)
  /\ PercentileDecoded /\ text[Len(text)] = "%" /\ PercentileField(text).ok
       /\ OutsidePercentiles(PercentileField(text).value)
       => answer.kind = "Err"

\* an identifier in the middle of the supply was read back from a
\* percentile of sixteen digits
C24_Witness ==
  /\ notation = "percentile"
  /\ pc = "done"
  /\ BigLt(BigOf(MaxPercentiles), number)
  /\ BigLt(number, BigSub(LAST, BigOf(MaxPercentiles)))
  /\ Len(text) >= 17
  /\ answer = OkOrdinal(number)

\* the double next above 100 was refused
C24_WitnessAboveHundred ==
  /\ PercentileDecoded
  /\ text = <<"1", "0", "0", ".", "0", "0", "0", "0", "0", "0", "0", "0", "0", "0",
               "0", "0", "0", "1", "%">>
  /\ answer = Err("invalid percentile")

----------------------------------------------------------------------------
(* Properties of the stages of build_transaction                           *)

\* the builder fields a stage can write
builder_fields == <<unused_change_addresses, utxos, inputs, outputs>>

\* align_ordinal ran to its end
Aligned == pc = "align_ordinal" /\ pc' = "pad_alignment_output"

\* C25: Stage 2, run on the state stage 1 produced, always runs to its end.
\* With the ordinal at offset 0 of the ranges of the hosting output it leaves
\* every field as it was.  Otherwise it puts exactly one output in front of
\* the recipient output, paying the offset to the last unused change address,
\* takes that address off the unused list, and debits the recipient output by
\* exactly the offset, which leaves it at least 1 sat and leaves the sum of
\* the output values as it was.
C25_AlignOrdinalEffect ==
  [][align_ordinal =>
       LET offset == OffsetIn(ranges[inputs[1]], ordinal)
       IN /\ Aligned
          /\ offset >= 0
          /\ offset = 0 => UNCHANGED builder_fields
          /\ offset > 0 =>
               /\ Len(outputs') = 2
               /\ outputs'[1] = [address |-> unused_change_addresses[Len(unused_change_addresses)],
                                 amount |-> offset]
               /\ outputs'[2] = [address |-> recipient,
                                 amount |-> outputs[1].amount - offset]
               /\ outputs'[2].amount >= 1
               /\ SumSeq(Amounts(outputs')) = SumSeq(Amounts(outputs))
               /\ unused_change_addresses' =
                    SubSeq(unused_change_addresses, 1, Len(unused_change_addresses) - 1)
               /\ UNCHANGED <<utxos, inputs>>]_vars

\* stage 2 has just inserted an alignment output in front of the recipient's
C25_Witness ==
  /\ pc = "pad_alignment_output"
  /\ Len(inputs) = 1
  /\ OffsetIn(ranges[inputs[1]], ordinal) > 0
  /\ Len(outputs) = 2
  /\ outputs[1].amount = OffsetIn(ranges[inputs[1]], ordinal)
  /\ outputs[2].address = recipient
  /\ Len(unused_change_addresses) = Cardinality(change_addresses) - 1

\* stage 2 has just left the state alone: the ordinal is the first of the
\* hosting output
C25_WitnessOffsetZero ==
  /\ pc = "pad_alignment_output"
  /\ Len(inputs) = 1
  /\ OffsetIn(ranges[inputs[1]], ordinal) = 0
  /\ Len(outputs) = 1
  /\ Len(unused_change_addresses) = Cardinality(change_addresses)

\* pad_alignment_output ran to its end
Padded == pc = "pad_alignment_output" /\ pc' = "add_postage"

\* the outputs hold an alignment output in front of the recipient's
HasAlignmentOutput(outs, rcpt) == Len(outs) >= 2 /\ outs[1].address # rcpt

\* C26: once stage 3 has succeeded, an alignment output, if there is one, is
\* worth at least the dust limit of its own script, whatever the dust limits
\* of the recipient's and of the change scripts are.
C26_AlignmentOutputAboveOwnDust ==
  pc = "add_postage" /\ HasAlignmentOutput(outputs, recipient)
    => outputs[1].amount >= DustValue(ScriptPubkey(outputs[1].address))

\* stage 3 has succeeded without padding, and the alignment output is above
\* the recipient's dust limit but below the one of its own script
C26_WitnessUnderOwnDust ==
  /\ pc = "add_postage"
  /\ HasAlignmentOutput(outputs, recipient)
  /\ Len(inputs) = 1
  /\ outputs[1].amount >= DustValue(ScriptPubkey(recipient))
  /\ outputs[1].amount < DustValue(ScriptPubkey(outputs[1].address))

\* the part of C26 about the padding itself: a padding step puts the selected
\* output first among the inputs, credits its whole value to the alignment
\* output and to nothing else, lifts the alignment output to the recipient's
\* dust limit, and the recipient output still starts at the ordinal
C26_PaddingCreditsWholeUtxo ==
  [][pad_alignment_output /\ Padded /\ inputs' # inputs =>
       /\ HasAlignmentOutput(outputs, recipient)
       /\ Len(inputs') = Len(inputs) + 1
       /\ inputs'[1] \in utxos
       /\ SubSeq(inputs', 2, Len(inputs')) = inputs
       /\ utxos' = utxos \ {inputs'[1]}
       /\ Len(outputs') = Len(outputs)
       /\ outputs'[1].address = outputs[1].address
       /\ outputs'[1].amount = outputs[1].amount + TotalOf(ranges[inputs'[1]])
       /\ outputs'[1].amount >= DustValue(ScriptPubkey(recipient))
       /\ \A i \in 2..Len(outputs) : outputs'[i] = outputs[i]
       /\ OffsetIn(FlatRanges(inputs', ranges), ordinal) = outputs'[1].amount
       /\ UNCHANGED unused_change_addresses]_vars

\* stage 3 has just padded the alignment output
C26_WitnessPadded ==
  /\ pc = "add_postage"
  /\ HasAlignmentOutput(outputs, recipient)
  /\ Len(inputs) = 2
  /\ outputs[1].amount = OffsetIn(ranges[inputs[2]], ordinal) + TotalOf(ranges[inputs[1]])

\* stage 4 has appended a cardinal input after the hosting output
PostageAdded ==
  /\ pc \in {"strip_excess_postage", "deduct_fee", "build", "done"}
  /\ inputs # <<>>
  /\ inputs[Len(inputs)] # FindOutpoint(ranges, ordinal)

\* the outputs paying to the recipient
RecipientOutputsOf(outs) == {i \in 1..Len(outs) : outs[i].address = recipient}

\* C27: when stage 4 has added a cardinal input, then once stage 6 has
\* subtracted the fee of the final shape the recipient output is still worth
\* at least the dust limit of its script.
C27_PostageCoversFinalFee ==
  pc = "build" /\ PostageAdded =>
    \A i \in RecipientOutputsOf(outputs) :
      outputs[i].amount >= DustValue(ScriptPubkey(recipient))

\* stage 4 accepted an output that covers the shortfall it computed, stage 6
\* has charged the fee of the shape with the new input, and the recipient
\* output is below its dust limit
C27_WitnessFeeOfNewInputUncovered ==
  /\ pc = "build"
  /\ PostageAdded
  /\ \E i \in RecipientOutputsOf(outputs) :
       /\ outputs[i].amount < DustValue(ScriptPubkey(recipient))
       /\ outputs[i].amount + EstimateFee(inputs, outputs)
            >= DustValue(ScriptPubkey(recipient))
               + EstimateFee(SubSeq(inputs, 1, Len(inputs) - 1), outputs)

\* the part of C27 that holds: right after stage 4 adds an input the
\* recipient output covers its dust limit and the fee estimated for the shape
\* without the new input
C27_PostageCoversEstimatedFee ==
  [][add_postage /\ inputs' # inputs =>
       /\ SubSeq(inputs', 1, Len(inputs)) = inputs
       /\ inputs'[Len(inputs')] \in utxos
       /\ outputs'[Len(outputs')].address = recipient
       /\ outputs'[Len(outputs')].amount =
            outputs[Len(outputs)].amount + TotalOf(ranges[inputs'[Len(inputs')]])
       /\ outputs'[Len(outputs')].amount >=
            DustValue(ScriptPubkey(recipient)) + EstimateFee(inputs, outputs)]_vars

\* deduct_fee ran to its end
FeeDeducted == pc = "deduct_fee" /\ pc' = "build"

\* the postage stage 5 looked at: the sum of the outputs past the ordinal
PostageOf(ins, outs, rngs, n) == SumSeq(Amounts(outs)) - OffsetIn(FlatRanges(ins, rngs), n)

\* C28: Stage 6 takes the fee from the last output only.  The number of
\* outputs, every output but the last, the address of the last, the inputs,
\* the candidate set and the unused change addresses stay as they are, and
\* the last output loses exactly TARGET_FEE_RATE times the estimated vsize.
\* The last output is the change output of the split when stage 5 split (the
\* postage was above MAX_POSTAGE), and the recipient output otherwise.
C28_FeeComesFromLastOutputOnly ==
  [][deduct_fee /\ FeeDeducted =>
       /\ Len(outputs') = Len(outputs)
       /\ \A i \in 1..(Len(outputs) - 1) : outputs'[i] = outputs[i]
       /\ outputs'[Len(outputs)].address = outputs[Len(outputs)].address
       /\ outputs'[Len(outputs)].amount =
            outputs[Len(outputs)].amount - TARGET_FEE_RATE * EstimateVsize(inputs, outputs)
       /\ UNCHANGED <<inputs, utxos, unused_change_addresses>>
       /\ IF PostageOf(inputs, outputs, ranges, ordinal) > MAX_POSTAGE
            THEN /\ outputs[Len(outputs)].address \in change_addresses
                 /\ outputs[Len(outputs) - 1].address = recipient
                 /\ outputs'[Len(outputs) - 1].amount = TARGET_POSTAGE
            ELSE outputs[Len(outputs)].address = recipient]_vars

\* stage 6 has taken the fee from the change output of the split, behind an
\* alignment output and the recipient output
C28_Witness ==
  /\ pc = "build"
  /\ Len(outputs) = 3
  /\ outputs[2].address = recipient
  /\ outputs[3].address \in change_addresses
  /\ InputAmount(inputs, ranges) - SumSeq(Amounts(outputs)) = EstimateFee(inputs, outputs)

\* stage 6 has taken the fee from the recipient output, behind an alignment
\* output
C28_WitnessFromRecipient ==
  /\ pc = "build"
  /\ Len(outputs) = 2
  /\ outputs[2].address = recipient
  /\ InputAmount(inputs, ranges) - SumSeq(Amounts(outputs)) = EstimateFee(inputs, outputs)

\* the stages after select_ordinal and up to deduct_fee are still to run
BeforeFee ==
  pc \in {"align_ordinal", "pad_alignment_output", "add_postage",
          "strip_excess_postage", "deduct_fee"}

\* C29: Value conservation.  From the end of stage 1 until stage 6 runs, the
\* output values sum to the total sats of the inputs (the sum of end - start
\* over their ranges), so stages 2 to 5 each preserve the equality; once
\* stage 6 has run, what the inputs hold beyond the outputs is exactly the
\* fee.
C29_ValueConservation ==
  /\ BeforeFee =>
       SumSeq(Amounts(outputs))
         = SumSeq([i \in 1..Len(inputs) |->
                     SumSeq([j \in 1..Len(ranges[inputs[i]]) |->
                               U64Diff(ranges[inputs[i]][j][2], ranges[inputs[i]][j][1])])])
  /\ pc = "build" =>
       SumSeq([i \in 1..Len(inputs) |->
                 SumSeq([j \in 1..Len(ranges[inputs[i]]) |->
                           U64Diff(ranges[inputs[i]][j][2], ranges[inputs[i]][j][1])])])
         - SumSeq(Amounts(outputs))
         = TARGET_FEE_RATE * EstimateVsize(inputs, outputs)

\* the stages have changed the outputs and the inputs: an alignment output,
\* a second input, and a split of the excess postage
C29_Witness ==
  /\ pc = "deduct_fee"
  /\ Len(inputs) >= 2
  /\ Len(outputs) = 3
  /\ outputs[1].address # recipient

\* stage 4 has added postage and the equality still holds before the fee
C29_WitnessPostage ==
  /\ pc = "deduct_fee"
  /\ PostageAdded
  /\ Len(outputs) = 2

\* s has no element twice
NoDuplicates(s) == \A i, j \in 1..Len(s) : i # j => s[i] # s[j]

\* C30: In every state of build_transaction no outpoint is twice among the
\* inputs, no input is a candidate, and the inputs and the candidates
\* together are exactly the keys of the manifest; so a returned transaction
\* spends no output twice, and at most three inputs are selected.
C30_InputsAndCandidatesSplitTheManifest ==
  /\ NoDuplicates(inputs)
  /\ \A i \in 1..Len(inputs) : inputs[i] \notin utxos
  /\ {inputs[i] : i \in 1..Len(inputs)} \cup utxos = DOMAIN ranges
  /\ Len(inputs) <= 3
  /\ pc = "done" /\ result.kind = "Ok" =>
       /\ NoDuplicates(result.transaction.input)
       /\ Len(result.transaction.input) <= 3

\* a transaction with three inputs was returned: the padding of the
\* alignment output, the hosting output and the postage
C30_Witness ==
  /\ pc = "done"
  /\ result.kind = "Ok"
  /\ Len(result.transaction.input) = 3
  /\ utxos = {}

\* two inputs were selected and a candidate is left over
C30_WitnessCandidateLeft ==
  /\ pc = "done"
  /\ result.kind = "Ok"
  /\ Len(inputs) = 2
  /\ utxos # {}

\* the outputs paying to a change address
ChangeOutputsOf(outs) == {i \in 1..Len(outs) : outs[i].address \in change_addresses}

\* how many of the provided change addresses have been taken
ChangeTaken(unused) == Cardinality(change_addresses) - Len(unused)

\* C31: Change addresses are taken from the end of the provided list, one at
\* a time, never more than two in a call and none of them twice.  Only stage
\* 2 and stage 5 take one, for the output they add: the alignment output gets
\* the last address of the list, the excess-postage output the last address
\* still unused, which is the last of the list when there is no alignment
\* output and the one before it otherwise.  Stages 1, 3, 4, 6 and 7 take none.
C31_ChangeConsumedFromTheEnd ==
  [][/\ \/ unused_change_addresses' = unused_change_addresses
        \/ unused_change_addresses' =
             SubSeq(unused_change_addresses, 1, Len(unused_change_addresses) - 1)
     /\ ChangeTaken(unused_change_addresses') <= 2
     /\ \A i, j \in ChangeOutputsOf(outputs') :
          i # j => outputs'[i].address # outputs'[j].address
     /\ Cardinality(ChangeOutputsOf(outputs')) = ChangeTaken(unused_change_addresses')
     /\ pc \notin {"align_ordinal", "strip_excess_postage"} =>
          unused_change_addresses' = unused_change_addresses
     /\ unused_change_addresses' # unused_change_addresses =>
          /\ Len(outputs') = Len(outputs) + 1
          /\ pc = "align_ordinal" =>
               /\ outputs'[1].address.id = Cardinality(change_addresses)
               /\ outputs'[1].address \in change_addresses
          /\ pc = "strip_excess_postage" =>
               /\ outputs'[Len(outputs')].address \in change_addresses
               /\ outputs'[Len(outputs')].address.id =
                    IF outputs[1].address = recipient
                      THEN Cardinality(change_addresses)
                    ELSE Cardinality(change_addresses) - 1]_vars

\* both change outputs were added: the alignment output holds the last
\* address of the list, the excess-postage output the one before it
C31_Witness ==
  /\ pc = "deduct_fee"
  /\ Len(outputs) = 3
  /\ outputs[1].address.id = Cardinality(change_addresses)
  /\ outputs[3].address.id = Cardinality(change_addresses) - 1
  /\ ChangeTaken(unused_change_addresses) = 2

\* only the excess-postage output was added, and it holds the last address
C31_WitnessSplitOnly ==
  /\ pc = "deduct_fee"
  /\ Len(outputs) = 2
  /\ outputs[1].address = recipient
  /\ outputs[2].address.id = Cardinality(change_addresses)
  /\ ChangeTaken(unused_change_addresses) = 1

----------------------------------------------------------------------------
(* build() on builders that skipped stages *)

\* the stage a full pipeline calls after stage p
StageAfter(p) ==
  CASE p = "align_ordinal" -> "pad_alignment_output"
    [] p = "pad_alignment_output" -> "add_postage"
    [] p = "add_postage" -> "strip_excess_postage"
    [] p = "strip_excess_postage" -> "deduct_fee"
    [] p = "deduct_fee" -> "build"

\* a caller of the stage methods leaves one out, as the invariant tests do
skip_stage ==
  /\ pc \in {"align_ordinal", "pad_alignment_output", "add_postage",
             "strip_excess_postage", "deduct_fee"}
  /\ pc' = StageAfter(pc)
  /\ UNCHANGED <<ranges, ordinal, recipient, change_addresses, unused_change_addresses,
                 utxos, inputs, outputs, result>>
  /\ UNCHANGED <<codec, process, index>>

NextSkipping ==
  \/ select_ordinal
  \/ align_ordinal
  \/ pad_alignment_output
  \/ add_postage
  \/ strip_excess_postage
  \/ deduct_fee
  \/ build
  \/ skip_stage

\* Self::new on a wallet with an output fewer than the full pipeline's
InitSkipping ==
  /\ Init
  /\ Cardinality(DOMAIN ranges) < MaxOutPoints

\* the stage methods called in their order, any of stages 2 to 6 left out
SpecSkipping == InitSkipping /\ [][NextSkipping]_vars

\* the ordinal is not at the first sat of the recipient output
Misaligned(ins, outs, rngs, n) ==
  \E i \in RecipientOutputsOf(outs) :
    SumSeq(SubSeq(Amounts(outs), 1, i - 1)) # OffsetIn(FlatRanges(ins, rngs), n)

\* the recipient output holds MAX_POSTAGE or more
Unstripped(outs) == \E i \in RecipientOutputsOf(outs) : outs[i].amount >= MAX_POSTAGE

\* what the inputs leave to the miner is not the target fee
FeeOff(ins, outs, rngs) ==
  InputAmount(ins, rngs) - SumSeq(Amounts(outs)) # TARGET_FEE_RATE * EstimateVsize(ins, outs)

\* an output is under the dust value of its own script
UnderDust(outs) ==
  \E i \in 1..Len(outs) : outs[i].amount < DustValue(ScriptPubkey(outs[i].address))

\* the assertions of build() that guard the four conditions
GuardsOf(ins, outs, rngs, n) ==
  (IF Misaligned(ins, outs, rngs, n)
     THEN {"invariant: ordinal is at first position in recipient output"} ELSE {})
  \cup (IF Unstripped(outs) THEN {"invariant: excess postage is stripped"} ELSE {})
  \cup (IF FeeOff(ins, outs, rngs)
          THEN {"invariant: fee rate is equal to target fee rate"} ELSE {})
  \cup (IF UnderDust(outs)
          THEN {"invariant: all outputs are above dust limit"} ELSE {})

\* the four assertions in the order build() reaches them
GuardOrder ==
  <<"invariant: excess postage is stripped",
    "invariant: ordinal is at first position in recipient output",
    "invariant: fee rate is equal to target fee rate",
    "invariant: all outputs are above dust limit">>

FirstGuard(guards) ==
  GuardOrder[CHOOSE i \in 1..4 : GuardOrder[i] \in guards
                                 /\ \A j \in 1..(i - 1) : GuardOrder[j] \notin guards]

C32_WitnessUnstripped ==
  /\ pc = "done"
  /\ result = Panic("invariant: excess postage is stripped")
  /\ Unstripped(outputs)

\* deduct_fee was skipped on a builder that is aligned and stripped
C32_WitnessFeeOff ==
  /\ pc = "done"
  /\ result = Panic("invariant: fee rate is equal to target fee rate")
  /\ GuardsOf(inputs, outputs, ranges, ordinal) =
       {"invariant: fee rate is equal to target fee rate"}

\* only the dust limit fails
C32_WitnessUnderDust ==
  /\ pc = "done"
  /\ result = Panic("invariant: all outputs are above dust limit")
  /\ GuardsOf(inputs, outputs, ranges, ordinal) =
       {"invariant: all outputs are above dust limit"}

\* align_ordinal was skipped and the outputs end before the ordinal
C32_WitnessNotFound ==
  /\ pc = "done"
  /\ result = Panic("invariant: ordinal is found in outputs")
  /\ Misaligned(inputs, outputs, ranges, ordinal)

----------------------------------------------------------------------------
(* The outputs taken as filler *)

\* the positions of a range that can be above Common: rarity above Common
\* needs epoch_position % subsidy = 0, a multiple of 10^9, and the range
\* start is looked at as well
RarePositionsOf(r) == {r[1]} \cup {<<h, 0>> : h \in 0..r[2][1]}

\* no ordinal of the ranges is above Common, at a start or inside
OnlyCommon(rs) ==
  \A i \in 1..Len(rs) : \A p \in RarePositionsOf(rs[i]) :
    Contains(rs[i], p) => ~AboveCommon(p)

\* stage 3 or stage 4 has taken an output
FillerTaken ==
  /\ pc \in {"pad_alignment_output", "add_postage"}
  /\ Len(inputs') = Len(inputs) + 1

\* the output stage 3 puts first or stage 4 puts last
FillerOf(ins, stage) == IF stage = "pad_alignment_output" THEN ins[1] ELSE ins[Len(ins)]

C33_WitnessPassedOver ==
  /\ pc = "strip_excess_postage"
  /\ Len(inputs) = 2
  /\ OnlyCommon(ranges[inputs[2]])
  /\ \E u \in utxos : u < inputs[2] /\ ~OnlyCommon(ranges[u])
                      /\ TotalOf(ranges[u]) >= TotalOf(ranges[inputs[2]])

----------------------------------------------------------------------------
(* The range of what from_str accepts *)

\* from_str has returned
Parsed == pc = "done" /\ answer.kind \in {"Ok", "Err", "Panic"}

\* C34: Whatever the text and whichever of the five decoders reads it, an
\* Ok(i) of from_str has 0 <= i < SUPPLY; the empty text, a block offset
\* equal to the subsidy of the block and the integer SUPPLY are not accepted.
C34_ParseYieldsIdentifierInRange ==
  /\ Parsed /\ answer.kind = "Ok" => BigLt(answer.ordinal, SUPPLY)
  /\ Parsed /\ text = <<>> => answer.kind # "Ok"
  /\ Parsed /\ ParseU64(text).ok /\ ParseU64(text).value = SUPPLY => answer.kind # "Ok"

\* the same, for every text that is not a name whose value leaves the u64
C34_InRangeUnlessNameWraps ==
  /\ Parsed /\ answer.kind = "Ok"
     /\ ~(HasLetter(text) /\ (\A i \in 1..Len(text) : IsLetter(text[i]))
          /\ Overflows(LetterValueFrom(text, 1, <<>>)))
     => BigLt(answer.ordinal, SUPPLY)
  /\ Parsed /\ text = <<>> => answer.kind # "Ok"
  /\ Parsed /\ ParseU64(text).ok /\ ParseU64(text).value = SUPPLY => answer.kind # "Ok"

\* a name of 14 letters whose value is 2^64 decoded to Ordinal(SUPPLY)
C34_WitnessSupplyAccepted ==
  /\ pc = "done"
  /\ Len(text) = 14
  /\ \A i \in 1..Len(text) : IsLetter(text[i])
  /\ LetterValueFrom(text, 1, <<>>) = TwoTo64
  /\ answer = OkOrdinal(SUPPLY)

\* the name whose value is SUPPLY decoded to identifier 0
C34_WitnessNameOfZero ==
  /\ pc = "done"
  /\ notation = "none"
  /\ text # <<>>
  /\ \A i \in 1..Len(text) : IsLetter(text[i])
  /\ LetterValueFrom(text, 1, <<>>) = SUPPLY
  /\ answer = OkOrdinal(<<>>)

----------------------------------------------------------------------------
(* What the degree decoder accepts *)

\* the fields (C, E, P, B) of the degree of identifier n
DegreeFieldsOf(n) ==
  <<BigOf(cycle(n)), BigOf(height(n) % SUBSIDY_HALVING_INTERVAL),
    BigOf(height(n) % DIFFCHANGE_INTERVAL), third(n)>>

\* the fields (C, E, P, B) written in s, B = 0 when s ends at the second mark
FieldsOf(s) ==
  <<CycleField(s).value, EpochOffsetField(s).value, PeriodOffsetField(s).value,
    BlockOffsetField(s).value>>

\* C35: When the degree decoder accepts a text with the fields (C, E, P, B)
\* and returns identifier i, the degree of i is (C, E, P, B): cycle(i) = C,
\* height(i) mod 210 000 = E, height(i) mod 2016 = P and third(i) = B.
C35_AcceptedDegreeIsCanonical ==
  DegreeDecoded /\ answer.kind = "Ok" => DegreeFieldsOf(answer.ordinal) = FieldsOf(text)

\* the same for the degrees whose height fits u64
C35_AcceptedDegreeIsCanonicalWithinU64 ==
  DegreeDecoded /\ answer.kind = "Ok" /\ ~Overflows(DegreeHeight(text))
    => DegreeFieldsOf(answer.ordinal) = FieldsOf(text)

\* the degree of cycle 2^63 was accepted as identifier 0, whose cycle is 0
\* and which the degree of cycle 0 decodes to as well
C35_WitnessWrappedCycle ==
  /\ DegreeDecoded
  /\ answer = OkOrdinal(<<>>)
  /\ FieldsOf(text) = <<BigPow(<<2>>, 63), <<>>, <<>>, <<>>>>
  /\ DegreeFieldsOf(answer.ordinal) = <<<<>>, <<>>, <<>>, <<>>>>
  /\ from_degree(<<"0", DegreeMark, "0", MinuteMark, "0", SecondMark, "0", ThirdMark>>, FALSE)
       = answer

\* a degree of a later block was accepted and its fields are those of the
\* identifier returned
C35_WitnessCanonical ==
  /\ DegreeDecoded
  /\ answer.kind = "Ok"
  /\ CycleField(text).value = <<5>>
  /\ DegreeFieldsOf(answer.ordinal) = FieldsOf(text)

----------------------------------------------------------------------------
(* The ctrl-c handler of main.rs and the registration of the server's     *)
(* handle in Subcommand::run.  The handler runs on the thread the ctrlc   *)
(* crate keeps for it, one interrupt after the other; the main thread     *)
(* runs the subcommand.                                                   *)

\* how many interrupts arrive
MaxInterrupts == 7

\* the handle Subcommand::run makes for the server
ServerHandle == "server"

\* mutant: the process is ended one interrupt earlier
ForceExitFromFive(interrupts) == interrupts >= 5

\* interrupts > 5
ForceExit(interrupts) == interrupts > 5

\* nobody has ended the process
Running == [by |-> "none", status |-> 0]

Alive == exit_code = Running

\* main has set the handler and is about to run a subcommand
InitInterrupts ==
  /\ BuilderIdle
  /\ CodecIdle
  /\ IndexIdle
  /\ pc = "main"
  /\ INTERRUPTS = 0
  /\ LISTENERS = <<>>
  /\ mutex = "free"
  /\ handler = [pc |-> "wait", interrupt |-> 0, interrupts |-> 0]
  /\ main \in {"server", "other"}
  /\ signals = <<>>
  /\ requests = {}
  /\ exit_code = Running

\* a ctrl-c arrives
interrupt ==
  /\ Alive
  /\ Len(signals) < MaxInterrupts
  /\ signals' = Append(signals, RangeOf(LISTENERS))
  /\ UNCHANGED <<INTERRUPTS, LISTENERS, mutex, handler, main, requests, exit_code>>
  /\ UNCHANGED <<builder, codec, index, pc>>

\* the handler is called for the next interrupt: LISTENERS.lock().unwrap()
handler_lock ==
  /\ Alive
  /\ handler.pc = "wait"
  /\ handler.interrupt < Len(signals)
  /\ mutex = "free"
  /\ mutex' = "handler"
  /\ handler' = [handler EXCEPT !.pc = "for_each", !.interrupt = @ + 1]
  /\ UNCHANGED <<INTERRUPTS, LISTENERS, main, signals, requests, exit_code>>
  /\ UNCHANGED <<builder, codec, index, pc>>

\* .iter().for_each(|handle| handle.graceful_shutdown(..)), then the guard
\* is dropped
handler_for_each ==
  /\ Alive
  /\ handler.pc = "for_each"
  /\ requests' = requests \cup {<<handler.interrupt, h>> : h \in RangeOf(LISTENERS)}
  /\ mutex' = "free"
  /\ handler' = [handler EXCEPT !.pc = "fetch_add"]
  /\ UNCHANGED <<INTERRUPTS, LISTENERS, main, signals, exit_code>>
  /\ UNCHANGED <<builder, codec, index, pc>>

\* let interrupts = INTERRUPTS.fetch_add(1, Relaxed)
handler_fetch_add ==
  /\ Alive
  /\ handler.pc = "fetch_add"
  /\ handler' = [handler EXCEPT !.pc = "check", !.interrupts = INTERRUPTS]
  /\ INTERRUPTS' = INTERRUPTS + 1
  /\ UNCHANGED <<LISTENERS, mutex, main, signals, requests, exit_code>>
  /\ UNCHANGED <<builder, codec, index, pc>>

\* if interrupts > 5 { process::exit(1) }
handler_exit ==
  /\ Alive
  /\ handler.pc = "check"
  /\ IF ForceExit(handler.interrupts)
       THEN /\ exit_code' = [status |-> 1, by |-> "handler"]
            /\ handler' = [handler EXCEPT !.pc = "exited"]
       ELSE /\ exit_code' = exit_code
            /\ handler' = [handler EXCEPT !.pc = "wait"]
  /\ UNCHANGED <<INTERRUPTS, LISTENERS, mutex, main, signals, requests>>
  /\ UNCHANGED <<builder, codec, index, pc>>

\* Self::Server: Index::open(&options)? and Handle::new()
open_index ==
  /\ Alive
  /\ main = "server"
  /\ \/ /\ main' = "lock"
        /\ exit_code' = exit_code
     \/ /\ main' = "returned"
        /\ exit_code' = [status |-> 1, by |-> "main"]
  /\ UNCHANGED <<INTERRUPTS, LISTENERS, mutex, handler, signals, requests>>
  /\ UNCHANGED <<builder, codec, index, pc>>

\* LISTENERS.lock().unwrap()
register_lock ==
  /\ Alive
  /\ main = "lock"
  /\ mutex = "free"
  /\ mutex' = "main"
  /\ main' = "push"
  /\ UNCHANGED <<INTERRUPTS, LISTENERS, handler, signals, requests, exit_code>>
  /\ UNCHANGED <<builder, codec, index, pc>>

\* .push(handle.clone()), then the guard is dropped
register_push ==
  /\ Alive
  /\ main = "push"
  /\ LISTENERS' = Append(LISTENERS, ServerHandle)
  /\ mutex' = "free"
  /\ main' = "serve"
  /\ UNCHANGED <<INTERRUPTS, handler, signals, requests, exit_code>>
  /\ UNCHANGED <<builder, codec, index, pc>>

\* server.run(options, index, handle) is entered
server_run ==
  /\ Alive
  /\ main = "serve"
  /\ main' = "serving"
  /\ UNCHANGED <<INTERRUPTS, LISTENERS, mutex, handler, signals, requests, exit_code>>
  /\ UNCHANGED <<builder, codec, index, pc>>

\* the subcommand returns and main ends the process, with 1 after an Err
subcommand_returns ==
  /\ Alive
  /\ main \in {"serving", "other"}
  /\ main' = "returned"
  /\ \E status \in {0, 1} : exit_code' = [status |-> status, by |-> "main"]
  /\ UNCHANGED <<INTERRUPTS, LISTENERS, mutex, handler, signals, requests>>
  /\ UNCHANGED <<builder, codec, index, pc>>

NextInterrupts ==
  \/ interrupt
  \/ handler_lock
  \/ handler_for_each
  \/ handler_fetch_add
  \/ handler_exit
  \/ open_index
  \/ register_lock
  \/ register_push
  \/ server_run
  \/ subcommand_returns

SpecInterrupts == InitInterrupts /\ [][NextInterrupts]_vars

\* the handler is past the for_each of interrupt k
ShutdownsRequestedFor(k) ==
  k < handler.interrupt \/ (k = handler.interrupt /\ handler.pc # "for_each")

\* the handler is past the fetch_add of this many interrupts
Counted ==
  IF handler.pc \in {"for_each", "fetch_add"} THEN handler.interrupt - 1
  ELSE handler.interrupt

\* C36: Each interrupt asks every handle that is in LISTENERS, when the
\* handler holds its lock, to shut down gracefully, and adds one to
\* INTERRUPTS.  The handler ends the process, with status 1, exactly when
\* the counter was above 5 before its increment: on the seventh interrupt
\* and on none of the first six.  The server's handle is pushed under the
\* lock before server.run is entered, so whatever the interleaving of the
\* handler with the main thread, every interrupt that arrives once the
\* handle is registered asks it to shut down.
C36_InterruptHandling ==
  [][/\ handler_for_each =>
          requests' \ requests = {<<handler.interrupt, h>> : h \in RangeOf(LISTENERS)}
     /\ INTERRUPTS' = Counted'
     /\ INTERRUPTS' \in {INTERRUPTS, INTERRUPTS + 1}
     /\ (exit_code'.by = "handler") = (handler'.pc = "exited")
     /\ handler'.pc = "exited" =>
          handler'.interrupt = 7 /\ handler'.interrupts = 6 /\ exit_code'.status = 1
     /\ handler'.pc = "wait" => handler'.interrupt <= 6
     /\ main' \in {"serve", "serving"} => ServerHandle \in RangeOf(LISTENERS')
     /\ LISTENERS' # LISTENERS => mutex = "main"
     /\ \A k \in 1..Len(signals') :
          ShutdownsRequestedFor(k)' => \A h \in signals'[k] : <<k, h>> \in requests'
    ]_vars

\* the first interrupt arrived before the server's handle was registered and
\* asked nothing to shut down, the later ones asked the handle, and the
\* seventh ended the process while the server ran
C36_Witness ==
  /\ exit_code = [status |-> 1, by |-> "handler"]
  /\ INTERRUPTS = 7
  /\ main = "serving"
  /\ signals[1] = {}
  /\ \A h \in RangeOf(LISTENERS) : <<1, h>> \notin requests
  /\ \A k \in 2..7 : <<k, ServerHandle>> \in requests

\* an interrupt that arrived before the registration was served after it
C36_WitnessServedAfterRegistration ==
  /\ signals # <<>>
  /\ signals[1] = {}
  /\ <<1, ServerHandle>> \in requests

\* six interrupts were served and the process is still running
C36_WitnessSixSurvived ==
  /\ exit_code = Running
  /\ INTERRUPTS = 6
  /\ handler.pc = "wait"

----------------------------------------------------------------------------
(* Rtx::height of index/rtx.rs.  HEIGHT_TO_BLOCK_HASH maps a height to    *)
(* the hash of the block at that height; the index writes it from height  *)
(* 0 upwards, and a read transaction sees the table as it was committed   *)
(* when the transaction began.                                            *)

\* how many blocks the index holds
MaxBlocks == 4

BlockHashes == {"hash a", "hash b"}

\* the tables of up to MaxBlocks blocks: the hash of height i - 1 at place i
Tables == UNION {[1..n -> BlockHashes] : n \in 0..MaxBlocks}

\* .range(0..): the (height, hash) entries in the order of their keys
Entries(t) == [i \in 1..Len(t) |-> <<i - 1, t[i]>>]

\* mutant: the entries are not reversed before the first is taken
RtxHeightOfFirst(t) ==
  IF Entries(t) = <<>> THEN 0 ELSE Head(Entries(t))[1]

\* .rev().next().map(|(height, _hash)| height).unwrap_or(0)
RtxHeight(t) ==
  LET rev == [i \in 1..Len(t) |-> Entries(t)[Len(t) + 1 - i]]
  IN IF rev = <<>> THEN 0 ELSE Head(rev)[1]

OkHeight(h) == [kind |-> "Ok", height |-> h]

\* a read transaction is open on an index that may have grown since
InitIndex ==
  /\ BuilderIdle
  /\ CodecIdle
  /\ ProcessIdle
  /\ pc = "height"
  /\ table \in Tables
  /\ rtx \in {SubSeq(table, 1, n) : n \in 0..Len(table)}
  /\ reported = NoResult

\* Rtx::height: open_table and range can fail, and ? hands the error on
rtx_height ==
  /\ pc = "height"
  /\ \/ reported' = OkHeight(RtxHeight(rtx))
     \/ reported' = Err("redb error")
  /\ pc' = "done"
  /\ UNCHANGED <<table, rtx>>
  /\ UNCHANGED <<builder, codec, process>>

NextIndex == rtx_height

SpecIndex == InitIndex /\ [][NextIndex]_vars

\* the height keys of the table
HeightKeys(t) == {i - 1 : i \in 1..Len(t)}

\* C37: Rtx::height returns the greatest height key of HEIGHT_TO_BLOCK_HASH
\* as its read transaction sees the table, and 0 when the table is empty;
\* so it returns the same height, 0, for an empty index and for an index
\* that holds block 0 only.
C37_HeightIsGreatestKey ==
  pc = "done" /\ reported.kind = "Ok" =>
    /\ HeightKeys(rtx) # {} =>
         /\ reported.height \in HeightKeys(rtx)
         /\ \A k \in HeightKeys(rtx) : k <= reported.height
    /\ HeightKeys(rtx) = {} => reported.height = 0
    /\ Len(rtx) <= 1 => reported.height = 0

\* blocks were committed after the read transaction began, and the height
\* returned is the greatest one the transaction sees
C37_Witness ==
  /\ pc = "done"
  /\ Len(rtx) >= 2
  /\ Len(table) > Len(rtx)
  /\ reported = OkHeight(Len(rtx) - 1)

\* an empty table gave height 0
C37_WitnessEmpty ==
  pc = "done" /\ rtx = <<>> /\ reported = OkHeight(0)

\* a table with block 0 only gave height 0
C37_WitnessBlockZero ==
  pc = "done" /\ Len(rtx) = 1 /\ reported = OkHeight(0)

====
